---- MODULE Spec2Model ----
(***************************************************************************)
(* A model of the zeroclaw onboarding wizard (src/onboard/tui): the        *)
(* terminal set-up and tear-down of run_wizard, the event loop of          *)
(* run_app_loop, the step graph App::next_step and the configuration       *)
(* synthesis finalize_config.                                              *)
(*                                                                         *)
(* Strings are sequences of tokens: a token is a single character (" ",    *)
(* "/", ",", "a", ...) or an opaque word ("vllm", "custom:").  The empty   *)
(* string is <<>>.  Option<T> is a sequence of length 0 (None) or 1        *)
(* (Some(x) is <<x>>).  A ListState is its selected index, NoneSel for an  *)
(* unselected list.                                                        *)
(***************************************************************************)
EXTENDS Integers, Sequences, FiniteSets, TLC

VARIABLES
    app,        \* the App record of state.rs (the Answer Store and cursors)
    pc,         \* position of run_wizard
    raw_mode,   \* terminal raw mode is enabled
    alt_screen, \* the alternate screen is entered
    fs,         \* the file system: config path -> file contents
    active_dir, \* Option: the recorded active config directory
    scaffolded, \* Option: the workspace scaffolded, with its ProjectContext
    autostart,  \* ZEROCLAW_AUTOSTART_CHANNELS is set
    loop_result,\* result of run_app_loop: "running", "Ok", "Err"
    result,     \* result of run_wizard: "none", <<"Ok", config>> or <<"Err", what>>
    hist,       \* history: what the session has done so far
    keys        \* number of key events other than Enter and Esc handled so far

vars == <<app, pc, raw_mode, alt_screen, fs, active_dir, scaffolded, autostart,
          loop_result, result, hist, keys>>

----------------------------------------------------------------------------
(* Bounds of the model *)

\* at most this many key events other than Enter and Esc in one session
MaxKeys == 2

\* the driver of next_step answers at most this many steps otherwise than by
\* their defaults, each by up to MaxPresses presses of Up or Down, a toggle
\* or a character
MaxAnswers == 1
MaxPresses == 16

\* in a segment of the wizard a text area holds at most MaxText characters and
\* the live catalog lists at most MaxLive model ids
MaxText == 3
MaxLive == 2

----------------------------------------------------------------------------
(* Strings *)

None == <<>>
Some(x) == <<x>>
IsSome(o) == Len(o) = 1
Unwrap(o) == o[1]

\* a one-token string
Str(w) == <<w>>

Whitespace == {" "}

RECURSIVE trim_start(_)
trim_start(s) ==
    IF s # <<>> /\ Head(s) \in Whitespace THEN trim_start(Tail(s)) ELSE s

RECURSIVE trim_end(_)
trim_end(s) ==
    IF s # <<>> /\ s[Len(s)] \in Whitespace
    THEN trim_end(SubSeq(s, 1, Len(s) - 1))
    ELSE s

\* str::trim
trim(s) == trim_end(trim_start(s))

RECURSIVE trim_end_matches(_, _)
\* str::trim_end_matches(c): strips every trailing c
trim_end_matches(s, c) ==
    IF s # <<>> /\ s[Len(s)] = c
    THEN trim_end_matches(SubSeq(s, 1, Len(s) - 1), c)
    ELSE s

\* text_value without the trim
text_value_untrimmed(input) == input

\* App::text_value: the trimmed first line of a text area (the model keeps
\* the single line of a text area as its value)
text_value(input) == trim(input)

RECURSIVE split(_, _)
\* str::split(c): the pieces between occurrences of c (always at least one)
split(s, c) ==
    IF \E i \in 1..Len(s) : s[i] = c
    THEN LET i == CHOOSE k \in 1..Len(s) :
                     s[k] = c /\ \A j \in 1..(k - 1) : s[j] # c
         IN  <<SubSeq(s, 1, i - 1)>> \o split(SubSeq(s, i + 1, Len(s)), c)
    ELSE <<s>>

RECURSIVE trimmed_nonempty(_)
trimmed_nonempty(pieces) ==
    IF pieces = <<>> THEN <<>>
    ELSE LET t == trim(Head(pieces))
         IN  (IF t = <<>> THEN <<>> ELSE <<t>>) \o trimmed_nonempty(Tail(pieces))

\* parse_list_csv without the filter on empty entries
parse_list_csv_keeps_empty(value) ==
    LET pieces == split(value, ",")
    IN  [i \in 1..Len(pieces) |-> trim(pieces[i])]

\* App::parse_list_csv
parse_list_csv(value) == trimmed_nonempty(split(value, ","))

----------------------------------------------------------------------------
(* Collaborators outside src/onboard/tui: the provider catalog, the model  *)
(* catalog, the memory backends, the runtime directories.                  *)

\* wizard::get_provider_tiers: the last tier is the custom tier
get_provider_tiers == <<Str("Hosted and local providers"), Str("Custom endpoint")>>

\* wizard::get_providers_for_tier: (id, label) pairs, none for the custom tier
get_providers_for_tier(tier_idx) ==
    IF tier_idx = 0
    THEN << <<Str("openrouter"), Str("OpenRouter")>>, <<Str("vllm"), Str("vLLM")>>,
            <<Str("llamacpp"), Str("llama.cpp")>>, <<Str("sglang"), Str("SGLang")>>,
            <<Str("osaurus"), Str("Osaurus")>>, <<Str("anthropic"), Str("Anthropic")>> >>
    ELSE <<>>

\* wizard::curated_models_for_provider: (id, description) pairs
curated_models_for_provider(provider) ==
    IF provider = Str("openrouter")
    THEN << <<Str("model-a"), Str("A")>>, <<Str("model-b"), Str("B")>> >>
    ELSE IF provider = Str("anthropic")
    THEN << <<Str("model-b"), Str("B")>> >>
    ELSE <<>>

\* wizard::default_model_for_provider
default_model_for_provider(provider) ==
    IF provider = Str("openrouter") THEN Str("model-a") ELSE Str("default-model")

\* what wizard::fetch_live_models_for_provider may return: an error, an empty
\* list, or a list with padded, blank and already curated ids
FetchOutcomes ==
    { [ok |-> FALSE, models |-> <<>>, error |-> Str("offline")],
      [ok |-> TRUE, models |-> <<>>, error |-> <<>>],
      [ok |-> TRUE,
       models |-> << <<" ", "model-c">>, <<"model-b", " ">>, <<" ">> >>,
       error |-> <<>>] }

\* byte order of the model ids of the catalog (the order of a BTreeSet<String>)
ModelOrder == <<"__custom_model__", "default-model", "model-a", "model-b", "model-c">>

\* memory::selectable_memory_backends with memory::memory_backend_profile
selectable_memory_backends ==
    << [key |-> Str("sqlite"), auto_save_default |-> TRUE, uses_sqlite_hygiene |-> TRUE],
       [key |-> Str("none"), auto_save_default |-> FALSE, uses_sqlite_hygiene |-> FALSE] >>

memory_backend_profile(backend) ==
    IF \E i \in 1..Len(selectable_memory_backends) :
           selectable_memory_backends[i].key = backend
    THEN LET i == CHOOSE k \in 1..Len(selectable_memory_backends) :
                     selectable_memory_backends[k].key = backend
         IN  selectable_memory_backends[i]
    ELSE selectable_memory_backends[1]

\* config::schema::resolve_runtime_dirs_for_onboarding, when it succeeds
DefaultConfigDir == <<"~", "/", ".zeroclaw">>
DefaultWorkspaceDir == DefaultConfigDir \o <<"/", "workspace">>

\* PathBuf::join
join(dir, name) == IF dir = <<>> THEN <<name>> ELSE dir \o <<"/", name>>

\* Path::parent of a path built by join
parent(path) ==
    IF Len(path) >= 3 THEN Some(SubSeq(path, 1, Len(path) - 2))
    ELSE IF Len(path) = 1 THEN Some(<<>>)
    ELSE None

\* shellexpand::tilde
tilde(input) ==
    IF input # <<>> /\ Head(input) = "~" THEN <<"$HOME">> \o Tail(input) ELSE input

\* config::schema::resolve_config_dir_for_workspace: (config_dir, workspace_dir)
resolve_config_dir_for_workspace(path) == <<path, path \o <<"/", "workspace">> >>

----------------------------------------------------------------------------
(* The data model of state.rs *)

CUSTOM_MODEL_SENTINEL == Str("__custom_model__")

WizardSteps ==
    << "Welcome", "ConfigModeSelection", "WorkspaceSetup", "ProviderTierSelection",
       "ProviderSelection", "CustomProviderUrlEntry", "ProviderEndpointEntry",
       "ApiKeyEntry", "ModelSelection", "ModelCustomEntry", "ChannelSelection",
       "ChannelTokenEntry", "ChannelAuxEntry", "TunnelSelection", "TunnelPrimaryEntry",
       "TunnelSecondaryEntry", "ToolModeSelection", "ComposioApiKeyEntry",
       "SecretsEncryptChoice", "HardwareSelection", "MemorySelection",
       "ProjectUserEntry", "ProjectTimezoneEntry", "ProjectAgentEntry",
       "ProjectStyleSelection", "ProjectStyleCustomEntry", "Confirmation", "Done" >>

WizardStep == {WizardSteps[i] : i \in 1..Len(WizardSteps)}

\* the ChannelChoice variants in the order of the channel list
ChannelChoices ==
    << "CliOnly", "Telegram", "Discord", "Slack", "IMessage", "Matrix", "Signal",
       "WhatsApp", "Linq", "Irc", "Webhook", "NextcloudTalk", "DingTalk",
       "QqOfficial", "Lark", "Feishu", "Nostr" >>

\* the TunnelChoice variants in the order of the tunnel list
TunnelChoices == <<"None", "Cloudflare", "Tailscale", "Ngrok", "Custom">>

\* ListState: no selection
NoneSel == -1

\* ListState::selected().unwrap_or(d)
selected_or(list, d) == IF list = NoneSel THEN d ELSE list

\* ChannelsConfig::default(): no channel sub-config is populated
ChannelKeys ==
    { "telegram", "discord", "slack", "webhook", "imessage", "matrix", "signal",
      "whatsapp", "linq", "irc", "nextcloud_talk", "dingtalk", "qq", "lark",
      "feishu", "nostr" }

ChannelsConfig_default ==
    [cli |-> TRUE, sub |-> [k \in ChannelKeys |-> None]]

\* App::new
App_new(force) ==
    [ step |-> "Welcome",
      loading |-> FALSE,
      status_message |-> <<>>,
      config_dir |-> <<>>,
      config_path |-> <<>>,
      workspace_dir |-> <<>>,
      mode |-> "FullOnboarding",
      force |-> force,
      provider |-> <<>>,
      api_key |-> <<>>,
      api_url |-> None,
      model |-> <<>>,
      workspace_input |-> <<>>,
      use_default_workspace |-> TRUE,
      custom_provider_url_input |-> <<>>,
      provider_endpoint_input |-> <<>>,
      provider_tier_list |-> NoneSel,
      provider_list |-> NoneSel,
      mode_list |-> 1,
      model_list |-> NoneSel,
      api_key_input |-> <<>>,
      model_custom_input |-> <<>>,
      provider_tiers |-> get_provider_tiers,
      current_tier_providers |-> <<>>,
      available_models |-> <<>>,
      channel_choice |-> "CliOnly",
      channel_list |-> 0,
      channel_token_input |-> <<>>,
      channel_aux_input |-> <<>>,
      channels_config |-> ChannelsConfig_default,
      tunnel_choice |-> "None",
      tunnel_list |-> 0,
      tunnel_primary_input |-> <<>>,
      tunnel_secondary_input |-> <<>>,
      tunnel_toggle |-> FALSE,
      tool_mode_choice |-> "Sovereign",
      tool_mode_list |-> 0,
      composio_key_input |-> <<>>,
      secrets_encrypt |-> TRUE,
      hardware_choice |-> 3,
      hardware_list |-> 3,
      hardware_datasheets |-> FALSE,
      memory_choice |-> 0,
      memory_list |-> 0,
      memory_auto_save |-> TRUE,
      project_user_input |-> <<>>,
      project_timezone_input |-> <<>>,
      project_agent_input |-> <<>>,
      project_style_list |-> 1,
      project_style_custom_input |-> <<>> ]

\* needs_provider_endpoint with vllm left out of the pattern
needs_provider_endpoint_without_vllm(provider) ==
    provider \in {Str("llamacpp"), Str("sglang"), Str("osaurus")}

\* App::needs_provider_endpoint
needs_provider_endpoint(provider) ==
    provider \in {Str("llamacpp"), Str("sglang"), Str("vllm"), Str("osaurus")}

\* the file system: the contents of the file at a path, NoFile when there is none
NoFile == [kind |-> "none"]

FileAt(files, path) == IF path \in DOMAIN files THEN files[path] ELSE NoFile

\* only a file that parses counts as an existing configuration
has_existing_config_parsed(a, files) == FileAt(files, a.config_path).kind = "toml"

\* App::has_existing_config: config_path.exists()
has_existing_config(a, files) == FileAt(files, a.config_path).kind # "none"

----------------------------------------------------------------------------
(* flow.rs: the model catalog *)

\* Vec::get / slice::get with a 0-based index
get(seq, idx) == IF idx >= 0 /\ idx < Len(seq) THEN Some(seq[idx + 1]) ELSE None

\* position of a model id in the byte order of the catalog's ids
ModelRank(id) ==
    IF id # <<>> /\ \E i \in 1..Len(ModelOrder) : ModelOrder[i] = id[1]
    THEN CHOOSE i \in 1..Len(ModelOrder) : ModelOrder[i] = id[1]
    ELSE 0

RECURSIVE into_iter(_)
\* BTreeSet::into_iter: the elements in ascending order
into_iter(set) ==
    IF set = {} THEN <<>>
    ELSE LET m == CHOOSE x \in set : \A y \in set : ModelRank(x) <= ModelRank(y)
         IN  <<m>> \o into_iter(set \ {m})

\* the live ids inserted as they come, blank ones skipped
live_candidates_untrimmed(models) ==
    {models[i] : i \in 1..Len(models)} \ {<<>>}

\* the live ids prepare_models inserts: trimmed, blank ones skipped
live_candidates(models) ==
    {trim(models[i]) : i \in 1..Len(models)} \ {<<>>}

\* prepare_models without the sentinel pushed after the candidates
prepare_models_without_sentinel(a, fetched) ==
    LET curated == curated_models_for_provider(a.provider)
        curated_ids == {curated[i][1] : i \in 1..Len(curated)}
        with_live == IF fetched.ok
                     THEN curated_ids \cup live_candidates(fetched.models)
                     ELSE curated_ids
        candidates == IF with_live = {}
                      THEN {default_model_for_provider(a.provider)}
                      ELSE with_live
    IN  [a EXCEPT
            !.loading = FALSE,
            !.status_message =
                IF fetched.ok
                THEN Str("Loaded live + curated model catalog")
                ELSE Str("Live fetch unavailable: ") \o fetched.error,
            !.available_models = into_iter(candidates),
            !.model_list = 0]

\* prepare_models without the provider default for an empty catalog
prepare_models_no_default(a, fetched) ==
    LET curated == curated_models_for_provider(a.provider)
        curated_ids == {curated[i][1] : i \in 1..Len(curated)}
        candidates == IF fetched.ok
                      THEN curated_ids \cup live_candidates(fetched.models)
                      ELSE curated_ids
        merged == into_iter(candidates) \o <<CUSTOM_MODEL_SENTINEL>>
    IN  [a EXCEPT
            !.loading = FALSE,
            !.status_message =
                IF fetched.ok
                THEN Str("Loaded live + curated model catalog")
                ELSE Str("Live fetch unavailable: ") \o fetched.error,
            !.available_models = merged,
            !.model_list = 0]

\* App::prepare_models, given what the live fetch returned
prepare_models(a, fetched) ==
    LET curated == curated_models_for_provider(a.provider)
        curated_ids == {curated[i][1] : i \in 1..Len(curated)}
        with_live == IF fetched.ok
                     THEN curated_ids \cup live_candidates(fetched.models)
                     ELSE curated_ids
        candidates == IF with_live = {}
                      THEN {default_model_for_provider(a.provider)}
                      ELSE with_live
        merged == into_iter(candidates) \o <<CUSTOM_MODEL_SENTINEL>>
    IN  [a EXCEPT
            !.loading = FALSE,
            !.status_message =
                IF fetched.ok
                THEN Str("Loaded live + curated model catalog")
                ELSE Str("Live fetch unavailable: ") \o fetched.error,
            !.available_models = merged,
            !.model_list = 0]

\* the typed text used from index 5 on
project_style_text_custom_from_five(a) ==
    LET idx == selected_or(a.project_style_list, 1)
    IN  CASE idx = 0 -> Str("Be direct and concise.")
          [] idx = 1 -> Str("Be friendly, human, and conversational.")
          [] idx = 2 -> Str("Be professional and polished.")
          [] idx = 3 -> Str("Be expressive and playful when appropriate.")
          [] idx = 4 -> Str("Be technical and detailed.")
          [] OTHER -> text_value(a.project_style_custom_input)

\* App::project_style_text
project_style_text(a) ==
    LET idx == selected_or(a.project_style_list, 1)
    IN  CASE idx = 0 -> Str("Be direct and concise.")
          [] idx = 1 -> Str("Be friendly, human, and conversational.")
          [] idx = 2 -> Str("Be professional and polished.")
          [] idx = 3 -> Str("Be expressive and playful when appropriate.")
          [] idx = 4 -> Str("Be technical and detailed.")
          [] idx = 5 -> Str("Adapt to the situation.")
          [] OTHER -> text_value(a.project_style_custom_input)

----------------------------------------------------------------------------
(* flow.rs: channels *)

\* the field of ChannelsConfig each ChannelChoice populates
ChannelKeyOf(choice) ==
    CASE choice = "Telegram" -> "telegram"
      [] choice = "Discord" -> "discord"
      [] choice = "Slack" -> "slack"
      [] choice = "Webhook" -> "webhook"
      [] choice = "IMessage" -> "imessage"
      [] choice = "Matrix" -> "matrix"
      [] choice = "Signal" -> "signal"
      [] choice = "WhatsApp" -> "whatsapp"
      [] choice = "Linq" -> "linq"
      [] choice = "Irc" -> "irc"
      [] choice = "NextcloudTalk" -> "nextcloud_talk"
      [] choice = "DingTalk" -> "dingtalk"
      [] choice = "QqOfficial" -> "qq"
      [] choice = "Lark" -> "lark"
      [] choice = "Feishu" -> "feishu"
      [] choice = "Nostr" -> "nostr"
      [] OTHER -> "none"

\* App::apply_channel_choice
apply_channel_choice(a) ==
    LET selected == selected_or(a.channel_list, 0)
    IN  [a EXCEPT
            !.channel_choice =
                IF selected >= 1 /\ selected <= 16
                THEN ChannelChoices[selected + 1]
                ELSE "CliOnly",
            !.channels_config = [ChannelsConfig_default EXCEPT !.cli = TRUE]]

Digits == {"0", "1", "2", "3", "4", "5", "6", "7", "8", "9"}

DigitValue(d) ==
    CASE d = "0" -> 0 [] d = "1" -> 1 [] d = "2" -> 2 [] d = "3" -> 3 [] d = "4" -> 4
      [] d = "5" -> 5 [] d = "6" -> 6 [] d = "7" -> 7 [] d = "8" -> 8 [] d = "9" -> 9

RECURSIVE DecimalValue(_)
DecimalValue(s) ==
    IF s = <<>> THEN 0
    ELSE 10 * DecimalValue(SubSeq(s, 1, Len(s) - 1)) + DigitValue(s[Len(s)])

\* str::parse::<u16>: an optional "+", then digits, the value at most 65535
parse_u16(s) ==
    LET digits == IF s # <<>> /\ Head(s) = "+" THEN Tail(s) ELSE s
    IN  IF digits # <<>>
           /\ (\A i \in 1..Len(digits) : digits[i] \in Digits)
           /\ DecimalValue(digits) <= 65535
        THEN Some(DecimalValue(digits))
        ELSE None

\* Option::unwrap_or
unwrap_or(o, d) == IF IsSome(o) THEN Unwrap(o) ELSE d

\* an empty text kept as a present value
none_if_empty_keeps_empty(s) == Some(s)

\* `if s.is_empty() { None } else { Some(s) }`
none_if_empty(s) == IF s = <<>> THEN None ELSE Some(s)

\* an empty text kept, the default ignored
default_if_empty_keeps_empty(s, d) == s

\* `if s.is_empty() { d } else { s }`
default_if_empty(s, d) == IF s = <<>> THEN d ELSE s

Star == <<Str("*")>>

\* the sub-config apply_channel_token builds for a channel, as an Option:
\* None when it leaves the channel's field as it is
channel_sub_config(choice, token, aux) ==
    LET allowed_users == parse_list_csv(aux)
    IN  CASE choice = "Telegram" ->
               IF token # <<>>
               THEN Some([bot_token |-> token, allowed_users |-> allowed_users,
                          stream_mode |-> "default", draft_update_interval_ms |-> 1000,
                          interrupt_on_new_message |-> FALSE, mention_only |-> FALSE])
               ELSE None
          [] choice = "Discord" ->
               IF token # <<>>
               THEN Some([bot_token |-> token, guild_id |-> None,
                          allowed_users |-> allowed_users,
                          listen_to_bots |-> FALSE, mention_only |-> FALSE])
               ELSE None
          [] choice = "Slack" ->
               IF token # <<>>
               THEN Some([bot_token |-> token, app_token |-> None, channel_id |-> None,
                          allowed_users |-> allowed_users])
               ELSE None
          [] choice = "Webhook" ->
               Some([port |-> unwrap_or(parse_u16(token), 8081),
                     secret |-> none_if_empty(aux)])
          [] choice = "IMessage" ->
               Some([allowed_contacts |-> allowed_users])
          [] choice = "Matrix" ->
               Some([homeserver |-> default_if_empty(aux, Str("https://matrix.org")),
                     access_token |-> token, user_id |-> None, device_id |-> None,
                     room_id |-> Str("!zeroclaw:matrix.org"),
                     allowed_users |-> Star])
          [] choice = "Signal" ->
               Some([http_url |-> Str("http://127.0.0.1:8686"), account |-> token,
                     group_id |-> none_if_empty(aux), allowed_from |-> Star,
                     ignore_attachments |-> FALSE, ignore_stories |-> TRUE])
          [] choice = "WhatsApp" ->
               Some([access_token |-> none_if_empty(token),
                     phone_number_id |-> none_if_empty(aux),
                     verify_token |-> Some(Str("zeroclaw")), app_secret |-> None,
                     session_path |-> None, pair_phone |-> None, pair_code |-> None,
                     allowed_numbers |-> Star])
          [] choice = "Linq" ->
               Some([api_token |-> token,
                     from_phone |-> default_if_empty(aux, Str("+10000000000")),
                     signing_secret |-> None, allowed_senders |-> Star])
          [] choice = "Irc" ->
               Some([server |-> default_if_empty(token, Str("irc.libera.chat")),
                     port |-> 6697,
                     nickname |-> default_if_empty(aux, Str("zeroclaw")),
                     username |-> None, channels |-> <<Str("#general")>>,
                     allowed_users |-> Star, server_password |-> None,
                     nickserv_password |-> None, sasl_password |-> None,
                     verify_tls |-> Some(TRUE)])
          [] choice = "NextcloudTalk" ->
               Some([base_url |-> token, app_token |-> aux, webhook_secret |-> None,
                     allowed_users |-> Star])
          [] choice = "DingTalk" ->
               Some([client_id |-> token, client_secret |-> aux, allowed_users |-> Star])
          [] choice = "QqOfficial" ->
               Some([app_id |-> token, app_secret |-> aux, allowed_users |-> Star])
          [] choice = "Lark" ->
               Some([app_id |-> token, app_secret |-> aux, encrypt_key |-> None,
                     verification_token |-> None, allowed_users |-> Star,
                     mention_only |-> FALSE, use_feishu |-> FALSE,
                     receive_mode |-> "Websocket", port |-> None])
          [] choice = "Feishu" ->
               Some([app_id |-> token, app_secret |-> aux, encrypt_key |-> None,
                     verification_token |-> None, allowed_users |-> Star,
                     receive_mode |-> "Websocket", port |-> None])
          [] choice = "Nostr" ->
               Some([private_key |-> token, relays |-> <<Str("default_nostr_relays")>>,
                     allowed_pubkeys |-> IF aux = <<>> THEN Star ELSE parse_list_csv(aux)])
          [] OTHER -> None

\* apply_channel_token taking the token buffer as it is, blanks included
apply_channel_token_untrimmed(a) ==
    LET token == a.channel_token_input
        aux == text_value(a.channel_aux_input)
        built == channel_sub_config(a.channel_choice, token, aux)
    IN  IF IsSome(built)
        THEN [a EXCEPT !.channels_config.sub[ChannelKeyOf(a.channel_choice)] = built]
        ELSE a

\* apply_channel_token with the Telegram arm also filling the Discord field
apply_channel_token_also_discord(a) ==
    LET token == text_value(a.channel_token_input)
        aux == text_value(a.channel_aux_input)
        built == channel_sub_config(a.channel_choice, token, aux)
    IN  IF IsSome(built)
        THEN [a EXCEPT !.channels_config.sub[ChannelKeyOf(a.channel_choice)] = built,
                       !.channels_config.sub["discord"] =
                           IF a.channel_choice = "Telegram"
                           THEN Some([bot_token |-> token, guild_id |-> None,
                                      allowed_users |-> parse_list_csv(aux),
                                      listen_to_bots |-> FALSE, mention_only |-> FALSE])
                           ELSE @]
        ELSE a

\* App::apply_channel_token
apply_channel_token(a) ==
    LET token == text_value(a.channel_token_input)
        aux == text_value(a.channel_aux_input)
        built == channel_sub_config(a.channel_choice, token, aux)
    IN  IF IsSome(built)
        THEN [a EXCEPT !.channels_config.sub[ChannelKeyOf(a.channel_choice)] = built]
        ELSE a

\* App::apply_tunnel_choice
apply_tunnel_choice(a) ==
    LET selected == selected_or(a.tunnel_list, 0)
    IN  [a EXCEPT !.tunnel_choice =
            IF selected >= 1 /\ selected <= 4 THEN TunnelChoices[selected + 1] ELSE "None"]

----------------------------------------------------------------------------
(* flow.rs: the step graph *)

\* the arm Welcome offering the mode choice to a forced session as well
next_step_Welcome_ignores_force(a, files) ==
    IF has_existing_config(a, files)
    THEN [a EXCEPT !.step = "ConfigModeSelection"]
    ELSE [a EXCEPT !.mode = "FullOnboarding", !.step = "WorkspaceSetup"]

\* next_step, the arm WizardStep::Welcome
next_step_Welcome(a, files) ==
    IF has_existing_config(a, files) /\ ~a.force
    THEN [a EXCEPT !.step = "ConfigModeSelection"]
    ELSE [a EXCEPT !.mode = "FullOnboarding", !.step = "WorkspaceSetup"]

\* the selection ignored, the mode always FullOnboarding
next_step_ConfigModeSelection_full(a) ==
    [a EXCEPT !.mode = "FullOnboarding", !.step = "WorkspaceSetup"]

\* next_step, the arm WizardStep::ConfigModeSelection
next_step_ConfigModeSelection(a) ==
    [a EXCEPT
        !.mode = IF selected_or(a.mode_list, 1) = 0
                 THEN "FullOnboarding"
                 ELSE "UpdateProviderOnly",
        !.step = "WorkspaceSetup"]

\* next_step, the arm WizardStep::WorkspaceSetup
next_step_WorkspaceSetup(a) ==
    [a EXCEPT !.step = "ProviderTierSelection"]

\* next_step, the arm WizardStep::ProviderTierSelection
next_step_ProviderTierSelection(a) ==
    LET tier_idx == selected_or(a.provider_tier_list, 0)
        providers == get_providers_for_tier(tier_idx)
    IN  [a EXCEPT
            !.current_tier_providers = providers,
            !.step = IF providers = <<>>
                     THEN "CustomProviderUrlEntry"
                     ELSE "ProviderSelection"]

\* the arm ProviderSelection giving up the list once an entry is taken
next_step_ProviderSelection_drains_list(a) ==
    LET idx == selected_or(a.provider_list, 0)
        entry == get(a.current_tier_providers, idx)
    IN  IF IsSome(entry)
        THEN [a EXCEPT
                 !.provider = Unwrap(entry)[1],
                 !.api_url = None,
                 !.current_tier_providers = <<>>,
                 !.step = IF needs_provider_endpoint(Unwrap(entry)[1])
                          THEN "ProviderEndpointEntry"
                          ELSE "ApiKeyEntry"]
        ELSE a

\* next_step, the arm WizardStep::ProviderSelection
next_step_ProviderSelection(a) ==
    LET idx == selected_or(a.provider_list, 0)
        entry == get(a.current_tier_providers, idx)
    IN  IF IsSome(entry)
        THEN [a EXCEPT
                 !.provider = Unwrap(entry)[1],
                 !.api_url = None,
                 !.step = IF needs_provider_endpoint(Unwrap(entry)[1])
                          THEN "ProviderEndpointEntry"
                          ELSE "ApiKeyEntry"]
        ELSE a

\* the arm CustomProviderUrlEntry keeping the url as api_url as well
next_step_CustomProviderUrlEntry_sets_api_url(a) ==
    LET input == text_value(a.custom_provider_url_input)
        normalized == trim_end_matches(input, "/")
    IN  IF normalized # <<>>
        THEN [a EXCEPT
                 !.provider = Str("custom:") \o normalized,
                 !.api_url = Some(normalized),
                 !.step = "ApiKeyEntry"]
        ELSE a

\* next_step, the arm WizardStep::CustomProviderUrlEntry
next_step_CustomProviderUrlEntry(a) ==
    LET input == text_value(a.custom_provider_url_input)
        normalized == trim_end_matches(input, "/")
    IN  IF normalized # <<>>
        THEN [a EXCEPT
                 !.provider = Str("custom:") \o normalized,
                 !.api_url = None,
                 !.step = "ApiKeyEntry"]
        ELSE a

\* the arm ProviderEndpointEntry storing the text with its trailing slashes
next_step_ProviderEndpointEntry_stores_input(a) ==
    LET input == text_value(a.provider_endpoint_input)
        normalized == trim_end_matches(input, "/")
    IN  IF normalized # <<>>
        THEN [a EXCEPT !.api_url = Some(input), !.step = "ApiKeyEntry"]
        ELSE a

\* next_step, the arm WizardStep::ProviderEndpointEntry
next_step_ProviderEndpointEntry(a) ==
    LET input == text_value(a.provider_endpoint_input)
        normalized == trim_end_matches(input, "/")
    IN  IF normalized # <<>>
        THEN [a EXCEPT !.api_url = Some(normalized), !.step = "ApiKeyEntry"]
        ELSE a

\* next_step, the arm WizardStep::ApiKeyEntry
next_step_ApiKeyEntry(a, fetched) ==
    [prepare_models([a EXCEPT !.api_key = text_value(a.api_key_input)], fetched)
        EXCEPT !.step = "ModelSelection"]

\* the entry under the cursor stored whatever it is
next_step_ModelSelection_stores_any(a) ==
    LET idx == selected_or(a.model_list, 0)
        selected == get(a.available_models, idx)
    IN  IF IsSome(selected)
        THEN [a EXCEPT !.model = Unwrap(selected), !.step = "ChannelSelection"]
        ELSE a

\* next_step, the arm WizardStep::ModelSelection
next_step_ModelSelection(a) ==
    LET idx == selected_or(a.model_list, 0)
        selected == get(a.available_models, idx)
    IN  IF IsSome(selected)
        THEN IF Unwrap(selected) = CUSTOM_MODEL_SENTINEL
             THEN [a EXCEPT !.step = "ModelCustomEntry"]
             ELSE [a EXCEPT !.model = Unwrap(selected),
                            !.step = "ChannelSelection"]
        ELSE a

\* next_step, the arm WizardStep::ModelCustomEntry
next_step_ModelCustomEntry(a) ==
    LET typed == text_value(a.model_custom_input)
    IN  IF typed # <<>>
        THEN [a EXCEPT !.model = typed, !.step = "ChannelSelection"]
        ELSE a

\* the arm ChannelSelection without the case of IMessage
next_step_ChannelSelection_token_for_all(a) ==
    LET b == apply_channel_choice(a)
    IN  [b EXCEPT !.step =
            CASE b.channel_choice = "CliOnly" -> "TunnelSelection"
              [] OTHER -> "ChannelTokenEntry"]

\* next_step, the arm WizardStep::ChannelSelection
next_step_ChannelSelection(a) ==
    LET b == apply_channel_choice(a)
    IN  [b EXCEPT !.step =
            CASE b.channel_choice = "CliOnly" -> "TunnelSelection"
              [] b.channel_choice = "IMessage" -> "ChannelAuxEntry"
              [] OTHER -> "ChannelTokenEntry"]

\* next_step, the arm WizardStep::ChannelTokenEntry
next_step_ChannelTokenEntry(a) ==
    [a EXCEPT !.step =
        IF a.channel_choice = "CliOnly" THEN "TunnelSelection" ELSE "ChannelAuxEntry"]

\* the arm ChannelAuxEntry waiting for a token before it goes on
next_step_ChannelAuxEntry_waits_for_token(a) ==
    IF text_value(a.channel_token_input) = <<>>
    THEN apply_channel_token(a)
    ELSE [apply_channel_token(a) EXCEPT !.step = "TunnelSelection"]

\* next_step, the arm WizardStep::ChannelAuxEntry
next_step_ChannelAuxEntry(a) ==
    [apply_channel_token(a) EXCEPT !.step = "TunnelSelection"]

\* next_step, the arm WizardStep::TunnelSelection
next_step_TunnelSelection(a) ==
    LET b == apply_tunnel_choice(a)
    IN  [b EXCEPT !.step =
            IF b.tunnel_choice = "None" THEN "ToolModeSelection"
            ELSE "TunnelPrimaryEntry"]

\* every tunnel asked for a second field
next_step_TunnelPrimaryEntry_always_secondary(a) ==
    [a EXCEPT !.step = "TunnelSecondaryEntry"]

\* next_step, the arm WizardStep::TunnelPrimaryEntry
next_step_TunnelPrimaryEntry(a) ==
    [a EXCEPT !.step =
        IF a.tunnel_choice = "Cloudflare" THEN "ToolModeSelection"
        ELSE "TunnelSecondaryEntry"]

\* next_step, the arm WizardStep::TunnelSecondaryEntry
next_step_TunnelSecondaryEntry(a) ==
    [a EXCEPT !.step = "ToolModeSelection"]

\* the choice taken from the list, the key step visited whatever it is
next_step_ToolModeSelection_asks_key(a) ==
    [a EXCEPT
        !.tool_mode_choice = IF selected_or(a.tool_mode_list, 0) = 1
                             THEN "Composio" ELSE "Sovereign",
        !.step = "ComposioApiKeyEntry"]

\* next_step, the arm WizardStep::ToolModeSelection
next_step_ToolModeSelection(a) ==
    LET choice == IF selected_or(a.tool_mode_list, 0) = 1
                  THEN "Composio" ELSE "Sovereign"
    IN  [a EXCEPT
            !.tool_mode_choice = choice,
            !.step = IF choice = "Composio" THEN "ComposioApiKeyEntry"
                     ELSE "SecretsEncryptChoice"]

\* next_step, the arm WizardStep::ComposioApiKeyEntry
next_step_ComposioApiKeyEntry(a) ==
    [a EXCEPT !.step = "SecretsEncryptChoice"]

\* next_step, the arm WizardStep::SecretsEncryptChoice
next_step_SecretsEncryptChoice(a) ==
    [a EXCEPT !.step = "HardwareSelection"]

\* next_step, the arm WizardStep::HardwareSelection
next_step_HardwareSelection(a) ==
    [a EXCEPT !.hardware_choice = selected_or(a.hardware_list, 3),
              !.step = "MemorySelection"]

\* next_step, the arm WizardStep::MemorySelection
next_step_MemorySelection(a) ==
    LET choice == selected_or(a.memory_list, 0)
        entry == get(selectable_memory_backends, choice)
        backend == IF IsSome(entry) THEN Unwrap(entry).key ELSE Str("sqlite")
    IN  [a EXCEPT
            !.memory_choice = choice,
            !.memory_auto_save = memory_backend_profile(backend).auto_save_default,
            !.step = "ProjectUserEntry"]

\* next_step, the arm WizardStep::ProjectUserEntry
next_step_ProjectUserEntry(a) ==
    [a EXCEPT !.step = "ProjectTimezoneEntry"]

\* next_step, the arm WizardStep::ProjectTimezoneEntry
next_step_ProjectTimezoneEntry(a) ==
    [a EXCEPT !.step = "ProjectAgentEntry"]

\* next_step, the arm WizardStep::ProjectAgentEntry
next_step_ProjectAgentEntry(a) ==
    [a EXCEPT !.step = "ProjectStyleSelection"]

\* the arm ProjectStyleSelection finishing the wizard without the confirmation
next_step_ProjectStyleSelection_to_done(a) ==
    [a EXCEPT !.step =
        IF selected_or(a.project_style_list, 1) = 6
        THEN "ProjectStyleCustomEntry" ELSE "Done"]

\* next_step, the arm WizardStep::ProjectStyleSelection
next_step_ProjectStyleSelection(a) ==
    [a EXCEPT !.step =
        IF selected_or(a.project_style_list, 1) = 6
        THEN "ProjectStyleCustomEntry" ELSE "Confirmation"]

\* next_step, the arm WizardStep::ProjectStyleCustomEntry
next_step_ProjectStyleCustomEntry(a) ==
    [a EXCEPT !.step = "Confirmation"]

\* the arm Confirmation going back to the start
next_step_Confirmation_restart(a) ==
    [a EXCEPT !.step = "Welcome"]

\* next_step, the arm WizardStep::Confirmation
next_step_Confirmation(a) ==
    [a EXCEPT !.step = "Done"]

\* App::next_step; `files` is the file system has_existing_config looks at and
\* `fetched` is what the live model fetch returns if the step performs it
next_step(a, files, fetched) ==
    CASE a.step = "Welcome" -> next_step_Welcome(a, files)
      [] a.step = "ConfigModeSelection" -> next_step_ConfigModeSelection(a)
      [] a.step = "WorkspaceSetup" -> next_step_WorkspaceSetup(a)
      [] a.step = "ProviderTierSelection" -> next_step_ProviderTierSelection(a)
      [] a.step = "ProviderSelection" -> next_step_ProviderSelection(a)
      [] a.step = "CustomProviderUrlEntry" -> next_step_CustomProviderUrlEntry(a)
      [] a.step = "ProviderEndpointEntry" -> next_step_ProviderEndpointEntry(a)
      [] a.step = "ApiKeyEntry" -> next_step_ApiKeyEntry(a, fetched)
      [] a.step = "ModelSelection" -> next_step_ModelSelection(a)
      [] a.step = "ModelCustomEntry" -> next_step_ModelCustomEntry(a)
      [] a.step = "ChannelSelection" -> next_step_ChannelSelection(a)
      [] a.step = "ChannelTokenEntry" -> next_step_ChannelTokenEntry(a)
      [] a.step = "ChannelAuxEntry" -> next_step_ChannelAuxEntry(a)
      [] a.step = "TunnelSelection" -> next_step_TunnelSelection(a)
      [] a.step = "TunnelPrimaryEntry" -> next_step_TunnelPrimaryEntry(a)
      [] a.step = "TunnelSecondaryEntry" -> next_step_TunnelSecondaryEntry(a)
      [] a.step = "ToolModeSelection" -> next_step_ToolModeSelection(a)
      [] a.step = "ComposioApiKeyEntry" -> next_step_ComposioApiKeyEntry(a)
      [] a.step = "SecretsEncryptChoice" -> next_step_SecretsEncryptChoice(a)
      [] a.step = "HardwareSelection" -> next_step_HardwareSelection(a)
      [] a.step = "MemorySelection" -> next_step_MemorySelection(a)
      [] a.step = "ProjectUserEntry" -> next_step_ProjectUserEntry(a)
      [] a.step = "ProjectTimezoneEntry" -> next_step_ProjectTimezoneEntry(a)
      [] a.step = "ProjectAgentEntry" -> next_step_ProjectAgentEntry(a)
      [] a.step = "ProjectStyleSelection" -> next_step_ProjectStyleSelection(a)
      [] a.step = "ProjectStyleCustomEntry" -> next_step_ProjectStyleCustomEntry(a)
      [] a.step = "Confirmation" -> next_step_Confirmation(a)
      [] OTHER -> a

\* TunnelConfig::default()
TunnelConfig_default ==
    [provider |-> Str("none"), cloudflare |-> None, tailscale |-> None,
     ngrok |-> None, custom |-> None]

\* App::tunnel_config
tunnel_config(a) ==
    LET primary == text_value(a.tunnel_primary_input)
        secondary == text_value(a.tunnel_secondary_input)
        empty == [provider |-> <<>>, cloudflare |-> None, tailscale |-> None,
                  ngrok |-> None, custom |-> None]
    IN  CASE a.tunnel_choice = "Cloudflare" ->
               [empty EXCEPT !.provider = Str("cloudflare"),
                             !.cloudflare = Some([token |-> primary])]
          [] a.tunnel_choice = "Tailscale" ->
               [empty EXCEPT !.provider = Str("tailscale"),
                             !.tailscale = Some([funnel |-> a.tunnel_toggle,
                                                 hostname |-> none_if_empty(secondary)])]
          [] a.tunnel_choice = "Ngrok" ->
               [empty EXCEPT !.provider = Str("ngrok"),
                             !.ngrok = Some([auth_token |-> primary,
                                             domain |-> none_if_empty(secondary)])]
          [] a.tunnel_choice = "Custom" ->
               [empty EXCEPT !.provider = Str("custom"),
                             !.custom = Some([start_command |-> primary,
                                              health_url |-> none_if_empty(secondary),
                                              url_pattern |-> None])]
          [] OTHER -> TunnelConfig_default

----------------------------------------------------------------------------
(* render.rs and events.rs: one iteration of run_app_loop *)

SelectionSteps ==
    { "ConfigModeSelection", "ProviderTierSelection", "ProviderSelection",
      "ModelSelection", "ChannelSelection", "TunnelSelection", "ToolModeSelection",
      "HardwareSelection", "MemorySelection", "ProjectStyleSelection" }

\* the ListState a selection step shows and moves
ListOf(step) ==
    CASE step = "ConfigModeSelection" -> "mode_list"
      [] step = "ProviderTierSelection" -> "provider_tier_list"
      [] step = "ProviderSelection" -> "provider_list"
      [] step = "ModelSelection" -> "model_list"
      [] step = "ChannelSelection" -> "channel_list"
      [] step = "TunnelSelection" -> "tunnel_list"
      [] step = "ToolModeSelection" -> "tool_mode_list"
      [] step = "HardwareSelection" -> "hardware_list"
      [] step = "MemorySelection" -> "memory_list"
      [] step = "ProjectStyleSelection" -> "project_style_list"

\* the number of items render.rs draws for the list of a selection step
ListLen(a, step) ==
    CASE step = "ConfigModeSelection" -> 2
      [] step = "ProviderTierSelection" -> Len(a.provider_tiers)
      [] step = "ProviderSelection" -> Len(a.current_tier_providers)
      [] step = "ModelSelection" -> Len(a.available_models)
      [] step = "ChannelSelection" -> 17
      [] step = "TunnelSelection" -> 5
      [] step = "ToolModeSelection" -> 2
      [] step = "HardwareSelection" -> 4
      [] step = "MemorySelection" -> Len(selectable_memory_backends)
      [] step = "ProjectStyleSelection" -> 7

\* usize::saturating_sub
saturating_sub(n, m) == IF n >= m THEN n - m ELSE 0

\* the default of `selected().unwrap_or(..)` in the Up/Down handler of a step
MoveDefault(step) ==
    CASE step = "ConfigModeSelection" -> 1
      [] step = "HardwareSelection" -> 3
      [] step = "ProjectStyleSelection" -> 1
      [] OTHER -> 0

\* the largest index the Down handler of a step moves to
MoveMax(a, step) ==
    CASE step = "ConfigModeSelection" -> 1
      [] step = "ProviderTierSelection" -> saturating_sub(Len(a.provider_tiers), 1)
      [] step = "ProviderSelection" -> saturating_sub(Len(a.current_tier_providers), 1)
      [] step = "ModelSelection" -> saturating_sub(Len(a.available_models), 1)
      [] step = "ChannelSelection" -> 16
      [] step = "TunnelSelection" -> 4
      [] step = "ToolModeSelection" -> 1
      [] step = "HardwareSelection" -> 3
      [] step = "MemorySelection" -> saturating_sub(Len(selectable_memory_backends), 1)
      [] step = "ProjectStyleSelection" -> 6

\* render::ui: draw_list selects the first item of an unselected list; no
\* list is drawn for ModelSelection while loading
ui(a) ==
    IF a.step \in SelectionSteps /\ ~(a.step = "ModelSelection" /\ a.loading)
       /\ a[ListOf(a.step)] = NoneSel
    THEN [a EXCEPT ![ListOf(a.step)] = 0]
    ELSE a

\* the Down arm without its bound
move_down_unbounded(a) ==
    LET index == selected_or(a[ListOf(a.step)], MoveDefault(a.step))
    IN  [a EXCEPT ![ListOf(a.step)] = index + 1]

\* the Down arm of a selection step
move_down(a) ==
    LET index == selected_or(a[ListOf(a.step)], MoveDefault(a.step))
    IN  IF index < MoveMax(a, a.step)
        THEN [a EXCEPT ![ListOf(a.step)] = index + 1]
        ELSE a

\* the Up arm of a selection step
move_up(a) ==
    LET index == selected_or(a[ListOf(a.step)], MoveDefault(a.step))
    IN  IF index > 0
        THEN [a EXCEPT ![ListOf(a.step)] = index - 1]
        ELSE a

\* the steps whose handler has a Tab arm, and the toggle it flips
ToggleSteps ==
    { "WorkspaceSetup", "TunnelPrimaryEntry", "SecretsEncryptChoice",
      "HardwareSelection", "MemorySelection" }

ToggleOf(step) ==
    CASE step = "WorkspaceSetup" -> "use_default_workspace"
      [] step = "TunnelPrimaryEntry" -> "tunnel_toggle"
      [] step = "SecretsEncryptChoice" -> "secrets_encrypt"
      [] step = "HardwareSelection" -> "hardware_datasheets"
      [] step = "MemorySelection" -> "memory_auto_save"

toggle(a) == [a EXCEPT ![ToggleOf(a.step)] = ~a[ToggleOf(a.step)]]

\* the steps whose handler passes other keys to a text area
TextSteps ==
    { "WorkspaceSetup", "CustomProviderUrlEntry", "ProviderEndpointEntry",
      "ApiKeyEntry", "ModelCustomEntry", "ChannelTokenEntry", "ChannelAuxEntry",
      "TunnelPrimaryEntry", "TunnelSecondaryEntry", "ComposioApiKeyEntry",
      "ProjectUserEntry", "ProjectTimezoneEntry", "ProjectAgentEntry",
      "ProjectStyleCustomEntry" }

\* the text area the handler of a text step passes a key to
InputOf(a) ==
    CASE a.step = "WorkspaceSetup" -> "workspace_input"
      [] a.step = "CustomProviderUrlEntry" -> "custom_provider_url_input"
      [] a.step = "ProviderEndpointEntry" -> "provider_endpoint_input"
      [] a.step = "ApiKeyEntry" -> "api_key_input"
      [] a.step = "ModelCustomEntry" -> "model_custom_input"
      [] a.step = "ChannelTokenEntry" -> "channel_token_input"
      [] a.step = "ChannelAuxEntry" ->
           IF a.channel_choice = "IMessage" THEN "channel_token_input"
           ELSE "channel_aux_input"
      [] a.step = "TunnelPrimaryEntry" -> "tunnel_primary_input"
      [] a.step = "TunnelSecondaryEntry" -> "tunnel_secondary_input"
      [] a.step = "ComposioApiKeyEntry" -> "composio_key_input"
      [] a.step = "ProjectUserEntry" -> "project_user_input"
      [] a.step = "ProjectTimezoneEntry" -> "project_timezone_input"
      [] a.step = "ProjectAgentEntry" -> "project_agent_input"
      [] a.step = "ProjectStyleCustomEntry" -> "project_style_custom_input"

\* whether the handler of the current step passes a text key to a text area
takes_text(a) ==
    /\ a.step \in TextSteps
    /\ a.step = "WorkspaceSetup" => ~a.use_default_workspace

\* TextArea::input for a character key and for Backspace
text_input(a, key) ==
    LET f == InputOf(a)
    IN  IF key.code = "Char"
        THEN [a EXCEPT ![f] = Append(a[f], key.ch)]
        ELSE IF a[f] # <<>>
             THEN [a EXCEPT ![f] = SubSeq(a[f], 1, Len(a[f]) - 1)]
             ELSE a

\* the Enter arm of WorkspaceSetup leaving config_path where it was
apply_workspace_input_keeps_config_path(a) ==
    LET input == text_value(a.workspace_input)
        dirs == resolve_config_dir_for_workspace(tilde(input))
    IN  IF ~a.use_default_workspace /\ input # <<>>
        THEN [a EXCEPT !.config_dir = dirs[1],
                       !.workspace_dir = dirs[2]]
        ELSE a

\* the Enter arm of WorkspaceSetup, before it calls next_step
apply_workspace_input(a) ==
    LET input == text_value(a.workspace_input)
        dirs == resolve_config_dir_for_workspace(tilde(input))
    IN  IF ~a.use_default_workspace /\ input # <<>>
        THEN [a EXCEPT !.config_dir = dirs[1],
                       !.workspace_dir = dirs[2],
                       !.config_path = join(dirs[1], "config.toml")]
        ELSE a

\* whether run_app_loop returns Ok(()) on this key
loop_returns(a, key) ==
    \/ key.code = "Esc"
    \/ a.step = "Confirmation" /\ key.code = "Enter"
    \/ a.step = "Done"

\* the match on app.step of run_app_loop for a key that does not end the loop
handle_key(a, key, files, fetched) ==
    CASE key.code = "Enter" ->
           IF a.step = "WorkspaceSetup"
           THEN next_step(apply_workspace_input(a), files, fetched)
           ELSE next_step(a, files, fetched)
      [] key.code = "Down" /\ a.step \in SelectionSteps -> move_down(a)
      [] key.code = "Up" /\ a.step \in SelectionSteps -> move_up(a)
      [] key.code = "Tab" /\ a.step \in ToggleSteps -> toggle(a)
      [] key.code \in {"Char", "Backspace"} /\ takes_text(a) -> text_input(a, key)
      [] OTHER -> a

----------------------------------------------------------------------------
(* finalize.rs: synthesis of the configuration document *)

\* ComposioConfig::default()
ComposioConfig_default ==
    [enabled |-> FALSE, api_key |-> None, entity_id |-> Str("default")]

\* hardware::config_from_wizard_choice(choice, &hardware::discover_hardware())
config_from_wizard_choice(choice) ==
    [enabled |-> choice # 3, transport_choice |-> choice,
     devices |-> Str("discovered"), workspace_datasheets |-> FALSE]

\* memory_config_defaults_for_backend (the fields that depend on the profile)
memory_config_defaults_for_backend(backend) ==
    LET profile == memory_backend_profile(backend)
    IN  [backend |-> backend,
         auto_save |-> profile.auto_save_default,
         hygiene_enabled |-> profile.uses_sqlite_hygiene,
         archive_after_days |-> IF profile.uses_sqlite_hygiene THEN 7 ELSE 0,
         purge_after_days |-> IF profile.uses_sqlite_hygiene THEN 30 ELSE 0,
         embedding_cache_size |-> IF profile.uses_sqlite_hygiene THEN 10000 ELSE 0]

\* Config::default()
Config_default ==
    [workspace_dir |-> <<>>, config_path |-> <<>>,
     default_provider |-> None, default_model |-> None,
     api_url |-> None, api_key |-> None,
     channels_config |-> ChannelsConfig_default,
     tunnel |-> TunnelConfig_default,
     composio |-> ComposioConfig_default,
     secrets |-> [encrypt |-> TRUE],
     hardware |-> config_from_wizard_choice(3),
     memory |-> memory_config_defaults_for_backend(Str("sqlite"))]

\* a configuration document written by an earlier session: every section
\* differs from the defaults
ExistingConfig ==
    [workspace_dir |-> DefaultWorkspaceDir,
     config_path |-> join(DefaultConfigDir, "config.toml"),
     default_provider |-> Some(Str("anthropic")),
     default_model |-> Some(Str("old-model")),
     api_url |-> Some(Str("http://old")),
     api_key |-> Some(Str("old-key")),
     channels_config |->
        [ChannelsConfig_default EXCEPT
            !.sub["matrix"] = Some([homeserver |-> Str("https://old"),
                                    access_token |-> Str("old-token"),
                                    user_id |-> None, device_id |-> None,
                                    room_id |-> Str("!old:matrix.org"),
                                    allowed_users |-> <<Str("@me")>>])],
     tunnel |-> [TunnelConfig_default EXCEPT
                    !.provider = Str("cloudflare"),
                    !.cloudflare = Some([token |-> Str("old-tunnel")])],
     composio |-> [enabled |-> TRUE, api_key |-> Some(Str("old-composio")),
                   entity_id |-> Str("default")],
     secrets |-> [encrypt |-> FALSE],
     hardware |-> [config_from_wizard_choice(1) EXCEPT !.workspace_datasheets = TRUE],
     memory |-> [memory_config_defaults_for_backend(Str("none")) EXCEPT
                    !.auto_save = TRUE]]

\* the contents of a file: a TOML document or something toml::from_str rejects
TomlFile(config) == [kind |-> "toml", config |-> config]
GarbageFile == [kind |-> "garbage"]

\* any populated sub-config counts, the webhook too
has_channels_with_webhook(channels_config) ==
    \E k \in ChannelKeys : IsSome(channels_config.sub[k])

\* ChannelsConfig::channels_except_webhook().iter().any(|(_, ok)| *ok)
has_channels(channels_config) ==
    \E k \in ChannelKeys \ {"webhook"} : IsSome(channels_config.sub[k])

\* the ProjectContext finalize_config hands to scaffold_workspace
project_context(a) ==
    [user_name |-> default_if_empty(text_value(a.project_user_input), Str("$USER")),
     timezone |-> default_if_empty(text_value(a.project_timezone_input), Str("UTC")),
     agent_name |-> default_if_empty(text_value(a.project_agent_input), Str("ZeroClaw")),
     communication_style |-> project_style_text(a)]

\* assemble without the FullOnboarding guard of line 85
assemble_always_full(a, base) ==
    LET provider == default_if_empty(trim(a.provider), Str("openrouter"))
        model == IF trim(a.model) = <<>>
                 THEN default_model_for_provider(provider)
                 ELSE trim(a.model)
        common == [base EXCEPT
                      !.default_provider = Some(provider),
                      !.default_model = Some(model),
                      !.api_url = a.api_url,
                      !.api_key = none_if_empty(trim(a.api_key))]
        entry == get(selectable_memory_backends, a.memory_choice)
        backend == IF IsSome(entry) THEN Unwrap(entry).key ELSE Str("sqlite")
    IN  IF TRUE
        THEN [common EXCEPT
                 !.channels_config = a.channels_config,
                 !.tunnel = tunnel_config(a),
                 !.composio =
                     IF a.tool_mode_choice = "Composio"
                     THEN [enabled |-> TRUE,
                           api_key |-> none_if_empty(text_value(a.composio_key_input)),
                           entity_id |-> Str("default")]
                     ELSE ComposioConfig_default,
                 !.secrets = [encrypt |-> a.secrets_encrypt],
                 !.hardware = [config_from_wizard_choice(a.hardware_choice) EXCEPT
                                  !.workspace_datasheets = a.hardware_datasheets],
                 !.memory = [memory_config_defaults_for_backend(backend) EXCEPT
                                !.auto_save = a.memory_auto_save]]
        ELSE common

\* the document finalize_config assembles from `base` (lines 76-116)
assemble(a, base) ==
    LET provider == default_if_empty(trim(a.provider), Str("openrouter"))
        model == IF trim(a.model) = <<>>
                 THEN default_model_for_provider(provider)
                 ELSE trim(a.model)
        common == [base EXCEPT
                      !.default_provider = Some(provider),
                      !.default_model = Some(model),
                      !.api_url = a.api_url,
                      !.api_key = none_if_empty(trim(a.api_key))]
        entry == get(selectable_memory_backends, a.memory_choice)
        backend == IF IsSome(entry) THEN Unwrap(entry).key ELSE Str("sqlite")
    IN  IF a.mode = "FullOnboarding"
        THEN [common EXCEPT
                 !.channels_config = a.channels_config,
                 !.tunnel = tunnel_config(a),
                 !.composio =
                     IF a.tool_mode_choice = "Composio"
                     THEN [enabled |-> TRUE,
                           api_key |-> none_if_empty(text_value(a.composio_key_input)),
                           entity_id |-> Str("default")]
                     ELSE ComposioConfig_default,
                 !.secrets = [encrypt |-> a.secrets_encrypt],
                 !.hardware = [config_from_wizard_choice(a.hardware_choice) EXCEPT
                                  !.workspace_datasheets = a.hardware_datasheets],
                 !.memory = [memory_config_defaults_for_backend(backend) EXCEPT
                                !.auto_save = a.memory_auto_save]]
        ELSE common

\* the external operations of finalize_config that may fail
FailurePoints == {"none", "read", "save", "persist", "scaffold"}

\* what finalize_config leaves behind and returns
Outcome(ok, error, config, files, active, scaffold, auto) ==
    [ok |-> ok, error |-> error, config |-> config, fs |-> files,
     active_dir |-> active, scaffolded |-> scaffold, autostart |-> auto]

\* lines 53-74 looking for the existing document in the default directory
load_base_at_default_dir(a, files, fail) ==
    LET existing == FileAt(files, join(DefaultConfigDir, "config.toml"))
        with_paths(c) == [c EXCEPT !.workspace_dir = a.workspace_dir,
                                   !.config_path = a.config_path]
    IN  IF a.mode = "UpdateProviderOnly" /\ existing.kind # "none"
        THEN IF fail = "read"
             THEN [ok |-> FALSE, error |-> Str("Failed to read existing config"),
                   base |-> <<>>]
             ELSE IF existing.kind # "toml"
             THEN [ok |-> FALSE, error |-> Str("Failed to parse existing config"),
                   base |-> <<>>]
             ELSE [ok |-> TRUE, error |-> <<>>, base |-> with_paths(existing.config)]
        ELSE [ok |-> TRUE, error |-> <<>>, base |-> with_paths(Config_default)]

\* finalize_config lines 53-74: the document synthesis starts from; `fail`
\* names the external operation that fails in this run, if it is reached
load_base(a, files, fail) ==
    LET existing == FileAt(files, a.config_path)
        with_paths(c) == [c EXCEPT !.workspace_dir = a.workspace_dir,
                                   !.config_path = a.config_path]
    IN  IF a.mode = "UpdateProviderOnly" /\ existing.kind # "none"
        THEN IF fail = "read"
             THEN [ok |-> FALSE, error |-> Str("Failed to read existing config"),
                   base |-> <<>>]
             ELSE IF existing.kind # "toml"
             THEN [ok |-> FALSE, error |-> Str("Failed to parse existing config"),
                   base |-> <<>>]
             ELSE [ok |-> TRUE, error |-> <<>>, base |-> with_paths(existing.config)]
        ELSE [ok |-> TRUE, error |-> <<>>, base |-> with_paths(Config_default)]

\* lines 118-166 with the active config directory recorded before the save
persist_and_scaffold_records_first(a, config, files, active, scaffold, auto, fail) ==
    LET saved == (config.config_path :> TomlFile(config)) @@ files
        config_dir == parent(config.config_path)
        full == a.mode = "FullOnboarding"
    IN  IF fail = "save"
        THEN Outcome(FALSE, Str("save failed"), <<>>, files, config_dir, scaffold, auto)
        ELSE IF ~IsSome(config_dir)
        THEN Outcome(FALSE, Str("Config path must have a parent directory"), <<>>,
                     saved, active, scaffold, auto)
        ELSE IF fail = "persist"
        THEN Outcome(FALSE, Str("persist failed"), <<>>, saved, active, scaffold, auto)
        ELSE IF full /\ fail = "scaffold"
        THEN Outcome(FALSE, Str("scaffold failed"), <<>>, saved, config_dir,
                     scaffold, auto)
        ELSE Outcome(TRUE, <<>>, config, saved, config_dir,
                     IF full
                     THEN Some([dir |-> config.workspace_dir, ctx |-> project_context(a)])
                     ELSE scaffold,
                     IF full /\ has_channels(config.channels_config)
                        /\ IsSome(config.api_key)
                     THEN TRUE ELSE auto)

\* lines 118-166 with the workspace scaffolded before the active config
\* directory is recorded
persist_and_scaffold_scaffolds_first(a, config, files, active, scaffold, auto, fail) ==
    LET saved == (config.config_path :> TomlFile(config)) @@ files
        config_dir == parent(config.config_path)
        full == a.mode = "FullOnboarding"
        made == IF full
                THEN Some([dir |-> config.workspace_dir, ctx |-> project_context(a)])
                ELSE scaffold
    IN  IF fail = "save"
        THEN Outcome(FALSE, Str("save failed"), <<>>, files, active, scaffold, auto)
        ELSE IF ~IsSome(config_dir)
        THEN Outcome(FALSE, Str("Config path must have a parent directory"), <<>>,
                     saved, active, scaffold, auto)
        ELSE IF full /\ fail = "scaffold"
        THEN Outcome(FALSE, Str("scaffold failed"), <<>>, saved, active, scaffold, auto)
        ELSE IF fail = "persist"
        THEN Outcome(FALSE, Str("persist failed"), <<>>, saved, active, made, auto)
        ELSE Outcome(TRUE, <<>>, config, saved, config_dir, made,
                     IF full /\ has_channels(config.channels_config)
                        /\ IsSome(config.api_key)
                     THEN TRUE ELSE auto)

\* finalize_config lines 118-166: the assembled document is saved, the active
\* config directory recorded, the workspace scaffolded, the autostart signalled
persist_and_scaffold(a, config, files, active, scaffold, auto, fail) ==
    LET saved == (config.config_path :> TomlFile(config)) @@ files
        config_dir == parent(config.config_path)
        full == a.mode = "FullOnboarding"
    IN  IF fail = "save"
        THEN Outcome(FALSE, Str("save failed"), <<>>, files, active, scaffold, auto)
        ELSE IF ~IsSome(config_dir)
        THEN Outcome(FALSE, Str("Config path must have a parent directory"), <<>>,
                     saved, active, scaffold, auto)
        ELSE IF fail = "persist"
        THEN Outcome(FALSE, Str("persist failed"), <<>>, saved, active, scaffold, auto)
        ELSE IF full /\ fail = "scaffold"
        THEN Outcome(FALSE, Str("scaffold failed"), <<>>, saved, config_dir,
                     scaffold, auto)
        ELSE Outcome(TRUE, <<>>, config, saved, config_dir,
                     IF full
                     THEN Some([dir |-> config.workspace_dir, ctx |-> project_context(a)])
                     ELSE scaffold,
                     IF full /\ has_channels(config.channels_config)
                        /\ IsSome(config.api_key)
                     THEN TRUE ELSE auto)

\* finalize_config, with the file system and the environment as it finds them
finalize_config(a, files, active, scaffold, auto, fail) ==
    LET loaded == load_base(a, files, fail)
    IN  IF loaded.ok
        THEN persist_and_scaffold(a, assemble(a, loaded.base), files, active,
                                  scaffold, auto, fail)
        ELSE Outcome(FALSE, loaded.error, <<>>, files, active, scaffold, auto)

----------------------------------------------------------------------------
(* mod.rs: run_wizard, and the session as a state machine *)

\* the characters the model types into the text area of a step
TypedChars(step) ==
    CASE step \in {"CustomProviderUrlEntry", "ProviderEndpointEntry"} -> {" ", "/", "a"}
      [] step \in {"ApiKeyEntry", "ModelCustomEntry"} -> {" ", "a"}
      [] step = "WorkspaceSetup" -> {"~", "a"}
      [] step = "ChannelAuxEntry" -> {",", "a"}
      [] OTHER -> {"a"}

\* the file systems a session may start with: no configuration file, a
\* configuration file of an earlier session, an unparsable one
InitialFiles ==
    { <<>>,
      join(DefaultConfigDir, "config.toml") :> TomlFile(ExistingConfig),
      join(DefaultConfigDir, "config.toml") :> GarbageFile }

\* the sessions the model starts: any of the file systems without --force,
\* and the one with a configuration file of an earlier session with --force
InitialSessions ==
    {<<FALSE, files>> : files \in InitialFiles}
        \cup {<<TRUE, join(DefaultConfigDir, "config.toml") :> TomlFile(ExistingConfig)>>}

\* the App once run_wizard has returned
Dropped == [step |-> "dropped"]

Init ==
    /\ \E session \in InitialSessions :
           app = App_new(session[1]) /\ fs = session[2]
    /\ pc = "enable_raw_mode"
    /\ raw_mode = FALSE
    /\ alt_screen = FALSE
    /\ active_dir = None
    /\ scaffolded = None
    /\ autostart = FALSE
    /\ loop_result = "running"
    /\ result = None
    /\ hist = [esc |-> FALSE, finalize_calls |-> 0, finalize_step |-> "-",
               finalize_mode |-> "-", raw_acquired |-> FALSE,
               last |-> [code |-> "-", step |-> "-"], toggled |-> None, fs0 |-> fs]
    /\ keys = 0

Err(what) == [ok |-> FALSE, error |-> Str(what), config |-> <<>>]

\* run_wizard returns `res`; its locals are dropped
Return(res) ==
    /\ pc' = "returned"
    /\ result' = Some(res)
    /\ app' = Dropped

\* mod.rs line 22
EnableRawMode ==
    /\ pc = "enable_raw_mode"
    /\ \/ /\ raw_mode' = TRUE
          /\ hist' = [hist EXCEPT !.raw_acquired = TRUE]
          /\ pc' = "enter_alternate_screen"
          /\ UNCHANGED <<app, result>>
       \/ /\ Return(Err("enable_raw_mode"))
          /\ UNCHANGED <<raw_mode, hist>>
    /\ UNCHANGED <<alt_screen, fs, active_dir, scaffolded, autostart, loop_result, keys>>

\* mod.rs lines 23-24: EnterAlternateScreen, then EnableMouseCapture
EnterAlternateScreen ==
    /\ pc = "enter_alternate_screen"
    /\ \/ /\ alt_screen' = TRUE
          /\ pc' = "terminal_new"
          /\ UNCHANGED <<app, result>>
       \/ /\ alt_screen' \in BOOLEAN
          /\ Return(Err("execute"))
    /\ UNCHANGED <<raw_mode, fs, active_dir, scaffolded, autostart, loop_result,
                   hist, keys>>

\* mod.rs lines 25-26
TerminalNew ==
    /\ pc = "terminal_new"
    /\ \/ pc' = "resolve_dirs" /\ UNCHANGED <<app, result>>
       \/ Return(Err("Terminal::new"))
    /\ UNCHANGED <<raw_mode, alt_screen, fs, active_dir, scaffolded, autostart,
                   loop_result, hist, keys>>

\* mod.rs lines 30-34
ResolveDirs ==
    /\ pc = "resolve_dirs"
    /\ \/ /\ app' = [app EXCEPT !.config_dir = DefaultConfigDir,
                                !.config_path = join(DefaultConfigDir, "config.toml"),
                                !.workspace_dir = DefaultWorkspaceDir]
          /\ pc' = "loop"
          /\ UNCHANGED result
       \/ Return(Err("resolve_runtime_dirs_for_onboarding"))
    /\ UNCHANGED <<raw_mode, alt_screen, fs, active_dir, scaffolded, autostart,
                   loop_result, hist, keys>>

\* mod.rs lines 38-46, run once run_app_loop has returned `loop_res`: the
\* terminal is restored, then `loop_result?`; `a` is the App the loop leaves
Teardown(a, loop_res, h) ==
    /\ loop_result' = loop_res
    /\ \/ /\ Return(Err("disable_raw_mode"))
          /\ hist' = h
          /\ UNCHANGED <<raw_mode, alt_screen>>
       \/ /\ raw_mode' = FALSE
          /\ alt_screen' \in BOOLEAN
          /\ Return(Err("execute"))
          /\ hist' = h
       \/ /\ raw_mode' = FALSE
          /\ alt_screen' = FALSE
          /\ Return(Err("show_cursor"))
          /\ hist' = h
       \/ /\ raw_mode' = FALSE
          /\ alt_screen' = FALSE
          /\ IF loop_res = "Err"
             THEN Return(Err("run_app_loop")) /\ hist' = h
             ELSE /\ pc' = "finalize_config"
                  /\ hist' = [h EXCEPT !.finalize_calls = @ + 1,
                                       !.finalize_step = a.step,
                                       !.finalize_mode = a.mode]
                  /\ app' = a
                  /\ UNCHANGED result

\* one iteration of run_app_loop that reads `key`: the frame is drawn, then
\* the key ends the loop (and run_wizard goes on) or is handled
Iteration(key, fetched) ==
    LET a == ui(app)
        h == [hist EXCEPT !.last = [code |-> key.code, step |-> a.step],
                          !.esc = @ \/ key.code = "Esc",
                          !.toggled = IF key.code = "Tab" /\ a.step = "MemorySelection"
                                      THEN Some(~a.memory_auto_save) ELSE @]
    IN  /\ pc = "loop"
        /\ IF loop_returns(a, key)
           THEN Teardown(a, "Ok", h)
           ELSE /\ app' = handle_key(a, key, fs, fetched)
                /\ hist' = h
                /\ UNCHANGED <<loop_result, pc, raw_mode, alt_screen, result>>
        /\ UNCHANGED <<fs, active_dir, scaffolded, autostart>>

Key(code) == [code |-> code, ch |-> ""]

\* no live fetch is performed
NotFetched == [ok |-> FALSE, models |-> <<>>, error |-> <<>>]

\* Enter at ApiKeyEntry performs the live fetch, with any of its outcomes
KeyEnter ==
    /\ IF app.step = "ApiKeyEntry"
       THEN \E fetched \in FetchOutcomes : Iteration(Key("Enter"), fetched)
       ELSE Iteration(Key("Enter"), NotFetched)
    /\ UNCHANGED keys

KeyEsc ==
    /\ Iteration(Key("Esc"), NotFetched)
    /\ UNCHANGED keys

KeyMove ==
    /\ keys < MaxKeys
    /\ app.step \in SelectionSteps
    /\ \E code \in {"Up", "Down"} : Iteration(Key(code), NotFetched)
    /\ keys' = keys + 1

KeyTab ==
    /\ keys < MaxKeys
    /\ app.step \in ToggleSteps
    /\ Iteration(Key("Tab"), NotFetched)
    /\ keys' = keys + 1

KeyText ==
    /\ keys < MaxKeys
    /\ app.step \in TextSteps
    /\ takes_text(app)
    /\ \E key \in {[code |-> "Char", ch |-> c] : c \in TypedChars(app.step)}
                    \cup {Key("Backspace")} :
           Iteration(key, NotFetched)
    /\ keys' = keys + 1

\* an iteration in which event::poll times out: the frame is drawn again
Redraw ==
    /\ pc = "loop"
    /\ app' = ui(app)
    /\ UNCHANGED <<pc, raw_mode, alt_screen, fs, active_dir, scaffolded, autostart,
                   loop_result, result, hist, keys>>

\* terminal.draw, event::poll or event::read fails: run_app_loop returns the
\* error (and run_wizard goes on)
LoopError ==
    /\ pc = "loop"
    /\ Teardown(app, "Err", hist)
    /\ UNCHANGED <<fs, active_dir, scaffolded, autostart, keys>>

\* mod.rs line 48: finalize_config(&app).await
Finalize ==
    /\ pc = "finalize_config"
    /\ \E fail \in FailurePoints :
           LET out == finalize_config(app, fs, active_dir, scaffolded, autostart, fail)
           IN  /\ fs' = out.fs
               /\ active_dir' = out.active_dir
               /\ scaffolded' = out.scaffolded
               /\ autostart' = out.autostart
               /\ Return([ok |-> out.ok, error |-> out.error, config |-> out.config])
    /\ UNCHANGED <<raw_mode, alt_screen, loop_result, hist, keys>>

Next ==
    \/ EnableRawMode
    \/ EnterAlternateScreen
    \/ TerminalNew
    \/ ResolveDirs
    \/ KeyEnter
    \/ KeyEsc
    \/ KeyMove
    \/ KeyTab
    \/ KeyText
    \/ Redraw
    \/ LoopError
    \/ Finalize

Spec == Init /\ [][Next]_vars

----------------------------------------------------------------------------
(* The step graph on its own: next_step applied again and again, from      *)
(* App::new with the runtime directories resolved, to whatever answers the *)
(* operator gives in between.                                              *)

\* the text steps next_step leaves only with a non-empty value
RequiredText(a) ==
    CASE a.step = "CustomProviderUrlEntry" ->
           trim_end_matches(trim(a.custom_provider_url_input), "/")
      [] a.step = "ProviderEndpointEntry" ->
           trim_end_matches(trim(a.provider_endpoint_input), "/")
      [] a.step = "ModelCustomEntry" -> trim(a.model_custom_input)
      [] OTHER -> <<"-">>

InvalidText(a) == RequiredText(a) = <<>>

InitAdvance ==
    /\ \E session \in InitialSessions :
           /\ app = [App_new(session[1]) EXCEPT
                        !.config_dir = DefaultConfigDir,
                        !.config_path = join(DefaultConfigDir, "config.toml"),
                        !.workspace_dir = DefaultWorkspaceDir]
           /\ fs = session[2]
    /\ pc = "advance"
    /\ raw_mode = FALSE
    /\ alt_screen = FALSE
    /\ active_dir = None
    /\ scaffolded = None
    /\ autostart = FALSE
    /\ loop_result = "running"
    /\ result = None
    /\ hist = [esc |-> FALSE, finalize_calls |-> 0, finalize_step |-> "-",
               finalize_mode |-> "-", raw_acquired |-> FALSE,
               last |-> [code |-> "-", step |-> "-"], toggled |-> None, fs0 |-> fs]
    /\ keys = 0

\* next_step is applied to the App as the frame shows it
Advance ==
    /\ pc = "advance"
    /\ \E fetched \in IF app.step = "ApiKeyEntry" THEN FetchOutcomes ELSE {NotFetched} :
           app' = next_step(ui(app), fs, fetched)
    /\ hist' = [hist EXCEPT !.last = [code |-> "Enter", step |-> app.step]]
    /\ UNCHANGED <<pc, raw_mode, alt_screen, fs, active_dir, scaffolded, autostart,
                   loop_result, result, keys>>

\* the key is pressed n times, each press handled after a frame is drawn
RECURSIVE press(_, _, _, _)
press(a, key, n, files) ==
    IF n = 0 THEN a
    ELSE press(handle_key(ui(a), key, files, NotFetched), key, n - 1, files)

\* the operator answers the step: moves the cursor by up to MaxPresses items,
\* flips the toggle or edits the text
Answer ==
    /\ pc = "advance"
    /\ keys < MaxAnswers
    /\ \E key \in {Key("Up"), Key("Down"), Key("Tab"), Key("Backspace")}
                    \cup {[code |-> "Char", ch |-> c] : c \in TypedChars(app.step)} :
         \E n \in 1..(IF key.code \in {"Up", "Down"} THEN MaxPresses ELSE 1) :
           /\ app' = press(app, key, n, fs)
           /\ app' # ui(app)
           /\ hist' = [hist EXCEPT !.last = [code |-> key.code, step |-> app.step]]
    /\ keys' = keys + 1
    /\ UNCHANGED <<pc, raw_mode, alt_screen, fs, active_dir, scaffolded, autostart,
                   loop_result, result>>

\* the operator makes the text of a step that requires one valid
SupplyValidText ==
    /\ pc = "advance"
    /\ InvalidText(app)
    /\ app' = text_input(app, [code |-> "Char", ch |-> "a"])
    /\ hist' = [hist EXCEPT !.last = [code |-> "Char", step |-> app.step]]
    /\ UNCHANGED <<pc, raw_mode, alt_screen, fs, active_dir, scaffolded, autostart,
                   loop_result, result, keys>>

NextAdvance ==
    \/ Advance
    \/ Answer
    \/ SupplyValidText

\* the operator keeps confirming, and gives a valid text where one is required
SpecAdvance ==
    InitAdvance /\ [][NextAdvance]_vars /\ WF_vars(Advance) /\ WF_vars(SupplyValidText)

----------------------------------------------------------------------------
(* Segments of the wizard, entered with the cursor on any item (SpecSegment) *)

\* Enter on the frame the loop draws, with no configuration file and no fetch
Confirm(a) == handle_key(ui(a), Key("Enter"), <<>>, NotFetched)

\* the App of a fresh session once Welcome, WorkspaceSetup and
\* ProviderTierSelection have been confirmed
AtProviderSelection ==
    Confirm(Confirm(Confirm(
        [App_new(FALSE) EXCEPT
            !.config_dir = DefaultConfigDir,
            !.config_path = join(DefaultConfigDir, "config.toml"),
            !.workspace_dir = DefaultWorkspaceDir])))

\* ... and once the first provider, no API key (the live fetch failing) and the
\* first model have been confirmed
AtChannelSelection ==
    Confirm(handle_key(ui(Confirm(AtProviderSelection)), Key("Enter"), <<>>,
                       [ok |-> FALSE, models |-> <<>>, error |-> Str("offline")]))

\* ... and once CliOnly has been confirmed
AtTunnelSelection == Confirm(AtChannelSelection)

\* ... once no tunnel has been confirmed
AtToolModeSelection == Confirm(AtTunnelSelection)

\* ... and once the steps up to the agent name have been confirmed as they are
AtProjectStyleSelection ==
    Confirm(Confirm(Confirm(Confirm(Confirm(Confirm(Confirm(AtToolModeSelection)))))))

\* the wizard at ModelSelection for the first provider, after a catalog
\* lookup that failed, that listed a new id, or that listed the reserved id
AtModelSelection ==
    {handle_key(ui(Confirm(AtProviderSelection)), Key("Enter"), <<>>, fetched) :
        fetched \in {[ok |-> FALSE, models |-> <<>>, error |-> Str("offline")],
                     [ok |-> TRUE, models |-> <<Str("model-c")>>, error |-> <<>>],
                     [ok |-> TRUE, models |-> <<CUSTOM_MODEL_SENTINEL>>, error |-> <<>>]}}

\* where a segment starts: at a selection step with the cursor on any item
SegmentStarts ==
    {[AtProviderSelection EXCEPT !.provider_list = i] :
        i \in 0..(Len(AtProviderSelection.current_tier_providers) - 1)}
    \cup UNION {{[a EXCEPT !.model_list = i] : i \in 0..(Len(a.available_models) - 1)} :
                  a \in AtModelSelection}
    \cup {[AtChannelSelection EXCEPT !.channel_list = i] : i \in 0..16}
    \cup {[AtTunnelSelection EXCEPT !.tunnel_list = i] : i \in 0..4}
    \cup {[AtToolModeSelection EXCEPT !.tool_mode_list = i] : i \in 0..1}
    \cup {[AtProjectStyleSelection EXCEPT !.project_style_list = i] : i \in 0..6}

\* where a segment ends, once it has left its first step
SegmentEnds ==
    {"ModelSelection", "ChannelSelection", "TunnelSelection", "ToolModeSelection",
     "SecretsEncryptChoice", "Confirmation"}

\* the ids a live catalog lists: padded, blank, curated, or the reserved id
LiveIds ==
    { <<" ", "model-c">>, <<"model-b", " ">>, <<" ">>, Str("model-a"),
      CUSTOM_MODEL_SENTINEL }

\* what fetch_live_models_for_provider may return in a segment
LiveOutcomes ==
    {[ok |-> FALSE, models |-> <<>>, error |-> Str("offline")]}
    \cup {[ok |-> TRUE, models |-> list, error |-> <<>>] :
             list \in UNION {[1..n -> LiveIds] : n \in 0..MaxLive}}

\* the characters typed into the text area of a step in a segment
SegmentChars(step) ==
    CASE step = "ChannelAuxEntry" -> {",", " ", "a"}
      [] step = "ApiKeyEntry" -> {"a"}
      [] OTHER -> {" ", "a"}

InitSegment ==
    /\ app \in SegmentStarts
    /\ fs = <<>>
    /\ pc = "segment"
    /\ raw_mode = TRUE
    /\ alt_screen = TRUE
    /\ active_dir = None
    /\ scaffolded = None
    /\ autostart = FALSE
    /\ loop_result = "running"
    /\ result = None
    /\ hist = [esc |-> FALSE, finalize_calls |-> 0, finalize_step |-> "-",
               finalize_mode |-> "-", raw_acquired |-> TRUE,
               last |-> [code |-> "-", step |-> "-"], toggled |-> None, fs0 |-> fs]
    /\ keys = 0

\* an iteration of run_app_loop within the segment that reads `key`
SegmentKey(key, fetched) ==
    /\ pc = "segment"
    /\ app.step \in SegmentEnds => hist.last.code = "-"
    /\ app' = handle_key(ui(app), key, fs, fetched)
    /\ hist' = [hist EXCEPT !.last = [code |-> key.code, step |-> app.step]]
    /\ UNCHANGED <<pc, raw_mode, alt_screen, fs, active_dir, scaffolded, autostart,
                   loop_result, result, keys>>

SegmentEnter ==
    \E fetched \in IF app.step = "ApiKeyEntry" THEN LiveOutcomes ELSE {NotFetched} :
        SegmentKey(Key("Enter"), fetched)

SegmentType ==
    /\ takes_text(app)
    /\ Len(app[InputOf(app)]) < MaxText
    /\ \E c \in SegmentChars(app.step) :
           SegmentKey([code |-> "Char", ch |-> c], NotFetched)

SegmentTab ==
    /\ app.step \in ToggleSteps
    /\ SegmentKey(Key("Tab"), NotFetched)

NextSegment ==
    \/ SegmentEnter
    \/ SegmentType
    \/ SegmentTab

SpecSegment == InitSegment /\ [][NextSegment]_vars

----------------------------------------------------------------------------
(* The step graph of next_step (SpecAdvance) *)

\* the position of a step in the declaration of WizardStep
Rank(step) == CHOOSE i \in 1..Len(WizardSteps) : WizardSteps[i] = step

\* a text that is empty once whitespace is trimmed and, where `slashes`,
\* trailing slashes are stripped: blanks, or blanks around a run of slashes
BlankText(text, slashes) ==
    /\ \A i \in 1..Len(text) : text[i] = " " \/ (slashes /\ text[i] = "/")
    /\ \A i, j, k \in 1..Len(text) :
           i < j /\ j < k /\ text[i] = "/" /\ text[k] = "/" => text[j] = "/"

\* the step requires a text and the one it holds is invalid
InvalidInput(a) ==
    \/ a.step = "CustomProviderUrlEntry" /\ BlankText(a.custom_provider_url_input, TRUE)
    \/ a.step = "ProviderEndpointEntry" /\ BlankText(a.provider_endpoint_input, TRUE)
    \/ a.step = "ModelCustomEntry" /\ BlankText(a.model_custom_input, FALSE)

\* C1: from every step other than Done, an operator who keeps confirming and
\* gives a valid text where one is required reaches Done, whatever the answers;
\* a transition of next_step either stays on the step or moves to a step
\* declared later, and it stays only at Done or on invalid input, so the step
\* graph has no cycle but the self-loops and Done is at most 27 valid
\* confirmations away
C1_AdvanceReachesDone ==
    /\ (app.step # "Done") ~> (app.step = "Done")
    /\ [][app'.step = app.step \/ Rank(app'.step) > Rank(app.step)]_vars
    /\ [][hist'.last.code = "Enter" /\ app'.step = app.step
             => app.step = "Done" \/ InvalidInput(app)]_vars

\* C1: Done is reached by confirmations after answers were given on the way
C1_Witness ==
    /\ pc = "advance"
    /\ app.step = "Done"
    /\ hist.last = [code |-> "Enter", step |-> "Confirmation"]
    /\ app.channel_choice = "Nostr"
    /\ keys = MaxAnswers

\* the answers under which a step can be left: what the step holds, or the
\* same with a character typed into its text area
Answered(a) ==
    {ui(a)} \cup (IF a.step \in TextSteps /\ a.step # "WorkspaceSetup"
                  THEN {text_input(a, [code |-> "Char", ch |-> "a"])}
                  ELSE {})

\* C7: next_step enters Done only from Confirmation, changes nothing at Done,
\* and every other step has an answer under which next_step leaves it
C7_DoneOnlyFromConfirmation ==
    /\ [][app'.step = "Done" /\ app.step # "Done" => app.step = "Confirmation"]_vars
    /\ [](app.step = "Done" =>
             \A fetched \in FetchOutcomes : next_step(app, fs, fetched) = app)
    /\ [](app.step # "Done" =>
             \E a \in Answered(app) : \E fetched \in FetchOutcomes :
                 next_step(a, fs, fetched).step # app.step)

\* C7: next_step has been applied at Done, which was entered from Confirmation
C7_Witness ==
    /\ pc = "advance"
    /\ app.step = "Done"
    /\ hist.last = [code |-> "Enter", step |-> "Done"]

----------------------------------------------------------------------------
(* The session of run_wizard (Spec) *)

\* what run_wizard has returned
Returned == Unwrap(result)

\* C2: finalize_config is invoked at most once in a session, and when it is
\* invoked the current step is Done
C2_SynthesisOnlyAtDone ==
    /\ hist.finalize_calls <= 1
    /\ hist.finalize_calls > 0 => hist.finalize_step = "Done"

\* C3: once Esc has been pressed finalize_config is never invoked: no document
\* is saved, no active config directory recorded, no workspace scaffolded and
\* no autostart signalled
C3_CancelSkipsSynthesis ==
    hist.esc =>
        /\ hist.finalize_calls = 0
        /\ fs = hist.fs0
        /\ active_dir = None
        /\ scaffolded = None
        /\ ~autostart

\* the sections of a configuration document the wizard asks about only in
\* FullOnboarding mode
Sections(config) ==
    [channels_config |-> config.channels_config, tunnel |-> config.tunnel,
     composio |-> config.composio, secrets |-> config.secrets,
     hardware |-> config.hardware, memory |-> config.memory]

\* the Answer Store, and the same with other channel, tunnel, tool, secrets,
\* hardware and memory answers
OtherAnswers(a) ==
    { a,
      [a EXCEPT !.channel_choice = "Telegram",
                !.channels_config.sub["telegram"] =
                    Some([bot_token |-> Str("t"), allowed_users |-> <<>>,
                          stream_mode |-> "default", draft_update_interval_ms |-> 1000,
                          interrupt_on_new_message |-> FALSE, mention_only |-> FALSE]),
                !.tunnel_choice = "Ngrok",
                !.tunnel_primary_input = Str("t"),
                !.tool_mode_choice = "Composio",
                !.composio_key_input = Str("k"),
                !.secrets_encrypt = ~@,
                !.hardware_choice = 0,
                !.hardware_datasheets = ~@,
                !.memory_choice = 1,
                !.memory_auto_save = ~@] }

\* C4: synthesis in UpdateProviderOnly mode against an existing, parsable
\* document leaves the channel, tunnel, composio, secrets, hardware and memory
\* sections of that document unchanged whatever the Answer Store holds for
\* them, and overwrites provider, model, api url and api key from the Answer
\* Store; the document run_wizard returns and the file it saved show the same
C4_UpdateKeepsSections ==
    /\ (pc = "finalize_config" /\ app.mode = "UpdateProviderOnly"
            /\ FileAt(fs, app.config_path).kind = "toml") =>
         \A a \in OtherAnswers(app), fail \in FailurePoints :
            LET old == FileAt(fs, app.config_path).config
                out == finalize_config(a, fs, active_dir, scaffolded, autostart, fail)
            IN  out.ok =>
                  /\ Sections(out.config) = Sections(old)
                  /\ FileAt(out.fs, a.config_path) = TomlFile(out.config)
                  /\ out.config.default_provider =
                         Some(IF trim(a.provider) = <<>> THEN Str("openrouter")
                              ELSE trim(a.provider))
                  /\ IsSome(out.config.default_model)
                  /\ trim(a.model) # <<>> => out.config.default_model = Some(trim(a.model))
                  /\ out.config.api_url = a.api_url
                  /\ out.config.api_key =
                         IF trim(a.api_key) = <<>> THEN None ELSE Some(trim(a.api_key))
    /\ (pc = "returned" /\ Returned.ok /\ hist.finalize_mode = "UpdateProviderOnly"
            /\ FileAt(hist.fs0, Returned.config.config_path).kind = "toml") =>
         /\ Sections(Returned.config) =
                Sections(FileAt(hist.fs0, Returned.config.config_path).config)
         /\ FileAt(fs, Returned.config.config_path) = TomlFile(Returned.config)

\* C4: an UpdateProviderOnly session over the document of an earlier session
\* has returned a document with the old sections, the new provider and the
\* API key the operator typed
C4_Witness ==
    /\ pc = "returned"
    /\ Returned.ok
    /\ hist.finalize_mode = "UpdateProviderOnly"
    /\ Sections(Returned.config) = Sections(ExistingConfig)
    /\ Returned.config.default_provider = Some(Str("openrouter"))
    /\ Returned.config.default_provider # ExistingConfig.default_provider
    /\ Returned.config.api_key = Some(Str("a"))

\* the errors of reading, parsing and saving
LoadOrSaveErrors ==
    { Str("Failed to read existing config"), Str("Failed to parse existing config"),
      Str("save failed") }

\* C5: when reading or parsing the existing document fails, or saving fails,
\* run_wizard returns that error and nothing of the later stages has happened:
\* the files are as they were, no active config directory is recorded, no
\* workspace is scaffolded, no autostart is signalled; and a file a session
\* has written is always a completely assembled document
C5_FailureAbortsSynthesis ==
    /\ (pc = "returned" /\ ~Returned.ok /\ Returned.error \in LoadOrSaveErrors) =>
         /\ fs = hist.fs0
         /\ active_dir = None
         /\ scaffolded = None
         /\ ~autostart
    /\ \A path \in DOMAIN fs :
         fs[path] # FileAt(hist.fs0, path) =>
            /\ fs[path].kind = "toml"
            /\ fs[path].config.config_path = path
            /\ IsSome(fs[path].config.default_provider)
            /\ IsSome(fs[path].config.default_model)
            /\ hist.finalize_calls = 1

\* C5: a FullOnboarding session, which would have recorded the directory and
\* scaffolded the workspace, has failed to save
C5_Witness ==
    /\ pc = "returned"
    /\ ~Returned.ok
    /\ Returned.error = Str("save failed")
    /\ hist.finalize_mode = "FullOnboarding"
    /\ fs = hist.fs0
    /\ active_dir = None

\* C6: Enter at CustomProviderUrlEntry, ProviderEndpointEntry or
\* ModelCustomEntry with a text that is empty after normalisation leaves the
\* step, provider, api_url and model as they are; and a session that has just
\* left one of these steps by Enter holds a valid text for it
C6_NoAdvanceOnInvalidInput ==
    /\ (pc = "loop" /\ InvalidInput(app)) =>
         LET after == handle_key(ui(app), Key("Enter"), fs, NotFetched)
         IN  /\ after.step = app.step
             /\ after.provider = app.provider
             /\ after.api_url = app.api_url
             /\ after.model = app.model
    /\ (pc = "loop" /\ hist.last.code = "Enter" /\ hist.last.step # app.step) =>
         ~InvalidInput([app EXCEPT !.step = hist.last.step])

\* C6: Enter was pressed at CustomProviderUrlEntry over a text of blanks and
\* slashes, and the session is still there
C6_Witness ==
    /\ pc = "loop"
    /\ hist.last = [code |-> "Enter", step |-> "CustomProviderUrlEntry"]
    /\ app.step = "CustomProviderUrlEntry"
    /\ app.custom_provider_url_input # <<>>
    /\ app.provider = <<>>

\* the channel-specific sub-configs that are populated
Populated(a) == {k \in ChannelKeys : IsSome(a.channels_config.sub[k])}

C9_TerminalReleased ==
    (pc = "returned" /\ hist.raw_acquired) => ~raw_mode /\ ~alt_screen

\* the index a list shows lies within the list
InList(a, step) ==
    a[ListOf(step)] \in 0..(ListLen(a, step) - 1)

----------------------------------------------------------------------------
(* The model catalog (SpecSegment) *)

\* a text without the blanks around it
Strip(text) ==
    LET inked == {i \in 1..Len(text) : text[i] # " "}
    IN  IF inked = {} THEN <<>>
        ELSE SubSeq(text, CHOOSE i \in inked : \A j \in inked : i <= j,
                          CHOOSE i \in inked : \A j \in inked : i >= j)

\* the elements of a sequence
Range(seq) == {seq[i] : i \in 1..Len(seq)}

\* a sequence without its last element
Front(seq) == SubSeq(seq, 1, Len(seq) - 1)

\* the ids of the curated models of a provider
CuratedIds(provider) == {pair[1] : pair \in Range(curated_models_for_provider(provider))}

\* the curated ids and the trimmed non-empty live ids
CatalogUnion(provider, live) ==
    CuratedIds(provider) \cup ({Strip(id) : id \in Range(live)} \ {<<>>})

\* the model list ApiKeyEntry leaves when the live fetch returns `fetched`
ModelsAfter(fetched) == next_step(ui(app), fs, fetched).available_models

\* C11 as claimed: after any successful live fetch the entries before the
\* last are exactly the union of the curated and the trimmed non-empty live
\* ids, each once, and the sentinel is the last entry and no other
C11_ModelListIsUnion ==
    (pc = "segment" /\ app.step = "ApiKeyEntry") =>
        \A fetched \in LiveOutcomes :
            fetched.ok =>
                LET list == ModelsAfter(fetched)
                    union == CatalogUnion(app.provider, fetched.models)
                IN  /\ list # <<>>
                    /\ list[Len(list)] = CUSTOM_MODEL_SENTINEL
                    /\ Range(Front(list)) = union
                    /\ Len(Front(list)) = Cardinality(union)
                    /\ CUSTOM_MODEL_SENTINEL \notin Range(Front(list))

\* C11 amended: after any successful live fetch the entries before the last
\* are exactly that union, each id once, or the provider's default model alone
\* when the union is empty; the sentinel is the last entry, and it is also an
\* earlier entry only when the catalog lists it as an id; the list a session
\* holds after ApiKeyEntry ends with the sentinel and repeats no id before it
C11_ModelListIsUnionOrDefault ==
    /\ (pc = "segment" /\ app.step = "ApiKeyEntry") =>
          \A fetched \in LiveOutcomes :
              fetched.ok =>
                  LET list == ModelsAfter(fetched)
                      union == CatalogUnion(app.provider, fetched.models)
                      expected == IF union = {}
                                  THEN {default_model_for_provider(app.provider)}
                                  ELSE union
                  IN  /\ list # <<>>
                      /\ list[Len(list)] = CUSTOM_MODEL_SENTINEL
                      /\ Range(Front(list)) = expected
                      /\ Len(Front(list)) = Cardinality(expected)
                      /\ CUSTOM_MODEL_SENTINEL \in Range(Front(list))
                            => CUSTOM_MODEL_SENTINEL \in union
    /\ (pc = "segment" /\ hist.last = [code |-> "Enter", step |-> "ApiKeyEntry"]) =>
          /\ app.step = "ModelSelection"
          /\ app.available_models # <<>>
          /\ app.available_models[Len(app.available_models)] = CUSTOM_MODEL_SENTINEL
          /\ Len(Front(app.available_models))
                = Cardinality(Range(Front(app.available_models)))
          /\ CuratedIds(app.provider) \subseteq Range(Front(app.available_models))

\* C11: the curated models a and b and a live catalog listing b and c have
\* been merged
C11_Witness ==
    /\ pc = "segment"
    /\ hist.last = [code |-> "Enter", step |-> "ApiKeyEntry"]
    /\ app.status_message = Str("Loaded live + curated model catalog")
    /\ app.available_models =
           <<Str("model-a"), Str("model-b"), Str("model-c"), CUSTOM_MODEL_SENTINEL>>

\* the status message of a failed live fetch
FetchFailed(a) ==
    a.status_message # <<>> /\ a.status_message[1] = "Live fetch unavailable: "

\* the outcome of a live fetch that fails
Offline == [ok |-> FALSE, models |-> <<>>, error |-> Str("offline")]

\* C12 as claimed: when the live fetch fails the error is in the status
\* message, the step becomes ModelSelection, and the model list is the
\* provider's default model followed by the sentinel
C12_FetchFailureGivesDefault ==
    (pc = "segment" /\ app.step = "ApiKeyEntry") =>
        LET after == next_step(ui(app), fs, Offline)
        IN  /\ after.step = "ModelSelection"
            /\ after.status_message = Str("Live fetch unavailable: ") \o Offline.error
            /\ after.available_models =
                   <<default_model_for_provider(app.provider), CUSTOM_MODEL_SENTINEL>>

\* C12 amended: when the live fetch fails the error is in the status message,
\* the step becomes ModelSelection, and the model list is the provider's
\* curated ids, each once, or its default model alone when it has no curated
\* ids, followed by the sentinel
C12_FetchFailureGivesCurated ==
    /\ (pc = "segment" /\ app.step = "ApiKeyEntry") =>
          LET after == next_step(ui(app), fs, Offline)
              expected == IF CuratedIds(app.provider) = {}
                          THEN {default_model_for_provider(app.provider)}
                          ELSE CuratedIds(app.provider)
              list == after.available_models
          IN  /\ after.step = "ModelSelection"
              /\ after.status_message = Str("Live fetch unavailable: ") \o Offline.error
              /\ list # <<>>
              /\ list[Len(list)] = CUSTOM_MODEL_SENTINEL
              /\ Range(Front(list)) = expected
              /\ Len(Front(list)) = Cardinality(expected)
    /\ (pc = "segment" /\ hist.last = [code |-> "Enter", step |-> "ApiKeyEntry"]
            /\ FetchFailed(app)) =>
          /\ app.step = "ModelSelection"
          /\ Len(app.available_models) = 1 + Cardinality(CuratedIds(app.provider))
                \/ app.available_models =
                       <<default_model_for_provider(app.provider), CUSTOM_MODEL_SENTINEL>>

\* C12: the live fetch has failed for a provider without curated models, and
\* the session is at ModelSelection with the provider's default model
C12_Witness ==
    /\ pc = "segment"
    /\ hist.last = [code |-> "Enter", step |-> "ApiKeyEntry"]
    /\ FetchFailed(app)
    /\ app.step = "ModelSelection"
    /\ CuratedIds(app.provider) = {}
    /\ app.available_models = <<Str("default-model"), CUSTOM_MODEL_SENTINEL>>

----------------------------------------------------------------------------
(* Provider and channel routing (SpecSegment) *)

\* the provider ids the claim lists as requiring an endpoint
EndpointProviders == {"llamacpp", "sglang", "vllm", "osaurus"}

\* the key just handled was Enter at `step`
Confirmed(step) == pc = "segment" /\ hist.last = [code |-> "Enter", step |-> step]

\* C13: confirming ProviderSelection stores the id under the cursor and clears
\* api_url, and goes to ProviderEndpointEntry when the id is llamacpp, sglang,
\* vllm or osaurus and to ApiKeyEntry for any other id
C13_ProviderRouting ==
    /\ Confirmed("ProviderSelection") =>
          /\ app.provider = app.current_tier_providers[app.provider_list + 1][1]
          /\ app.api_url = None
          /\ app.step = IF app.provider[1] \in EndpointProviders
                        THEN "ProviderEndpointEntry" ELSE "ApiKeyEntry"
          /\ app.provider = Str("vllm") => app.step # "ApiKeyEntry"
    /\ (pc = "segment" /\ app.step = "ProviderSelection") =>
          LET stale == [ui(app) EXCEPT !.api_url = Some(Str("http://old")),
                                       !.provider = Str("old")]
              after == next_step(stale, fs, NotFetched)
          IN  /\ after.api_url = None
              /\ after.provider = app.current_tier_providers[app.provider_list + 1][1]
              /\ after.step \in {"ProviderEndpointEntry", "ApiKeyEntry"}
              /\ after.step = "ProviderEndpointEntry"
                    <=> after.provider[1] \in EndpointProviders

\* C13: vllm has been confirmed and the session asks for its endpoint
C13_Witness ==
    /\ Confirmed("ProviderSelection")
    /\ app.provider = Str("vllm")
    /\ app.step = "ProviderEndpointEntry"

\* C14 as claimed: confirming ChannelSelection goes to TunnelSelection for
\* CliOnly and to ChannelTokenEntry for every other channel
C14_ChannelRouting ==
    Confirmed("ChannelSelection") =>
        /\ app.channel_choice = ChannelChoices[app.channel_list + 1]
        /\ app.step = IF app.channel_choice = "CliOnly"
                      THEN "TunnelSelection" ELSE "ChannelTokenEntry"

\* C14 amended: confirming ChannelSelection goes to TunnelSelection for
\* CliOnly, to ChannelAuxEntry for IMessage, and to ChannelTokenEntry for
\* the other fifteen channels, Webhook among them
C14_ChannelRoutingButIMessage ==
    Confirmed("ChannelSelection") =>
        /\ app.channel_choice = ChannelChoices[app.channel_list + 1]
        /\ app.step = CASE app.channel_choice = "CliOnly" -> "TunnelSelection"
                        [] app.channel_choice = "IMessage" -> "ChannelAuxEntry"
                        [] OTHER -> "ChannelTokenEntry"

\* C14: Webhook has been confirmed and the session asks for its port
C14_Witness ==
    /\ Confirmed("ChannelSelection")
    /\ app.channel_choice = "Webhook"
    /\ app.step = "ChannelTokenEntry"

----------------------------------------------------------------------------
(* Channel sub-configs (SpecSegment) *)

\* the entries of a comma-separated text: the pieces between the commas,
\* without the blanks around them, the empty ones dropped
CsvFields(text) ==
    LET bounds == {0, Len(text) + 1} \cup {i \in 1..Len(text) : text[i] = ","}
        next(p) == CHOOSE q \in bounds : q > p /\ \A r \in bounds : r > p => q <= r
        piece(p) == Strip(SubSeq(text, p + 1, next(p) - 1))
        kept == {p \in bounds : p <= Len(text) /\ piece(p) # <<>>}
        nth(k) == CHOOSE p \in kept : Cardinality({q \in kept : q < p}) = k - 1
    IN  [k \in 1..Cardinality(kept) |-> piece(nth(k))]

\* the channels whose sub-config is a bot token with an allow-list
BotChannels == {"Telegram", "Discord", "Slack"}

\* the sub-config of the current channel choice
CurrentSub(a) == a.channels_config.sub[ChannelKeyOf(a.channel_choice)]

\* C15: for Telegram, Discord and Slack, confirming ChannelAuxEntry with a
\* non-empty primary token populates the sub-config with the primary text as
\* bot_token and the entries of the aux text as allow-list; the primary abc123
\* with an empty aux text gives bot_token abc123 and an empty allow-list
C15_BotChannelSubConfig ==
    /\ (Confirmed("ChannelAuxEntry") /\ app.channel_choice \in BotChannels
            /\ Strip(app.channel_token_input) # <<>>) =>
          /\ IsSome(CurrentSub(app))
          /\ Unwrap(CurrentSub(app)).bot_token = Strip(app.channel_token_input)
          /\ Unwrap(CurrentSub(app)).allowed_users = CsvFields(app.channel_aux_input)
          /\ app.channel_aux_input = <<>> => Unwrap(CurrentSub(app)).allowed_users = <<>>
    /\ (pc = "segment" /\ app.step = "ChannelAuxEntry"
            /\ app.channel_choice \in BotChannels) =>
          LET typed == [ui(app) EXCEPT
                           !.channel_token_input = <<"a", "b", "c", "1", "2", "3">>,
                           !.channel_aux_input = <<>>]
              sub == CurrentSub(next_step(typed, fs, NotFetched))
          IN  /\ IsSome(sub)
              /\ Unwrap(sub).bot_token = <<"a", "b", "c", "1", "2", "3">>
              /\ Unwrap(sub).allowed_users = <<>>

\* C15: a Telegram sub-config has been populated with a token and two allowed
\* users, typed with a comma between them
C15_Witness ==
    /\ Confirmed("ChannelAuxEntry")
    /\ app.channel_choice = "Telegram"
    /\ IsSome(CurrentSub(app))
    /\ Unwrap(CurrentSub(app)).bot_token = <<"a">>
    /\ Unwrap(CurrentSub(app)).allowed_users = << <<"a">>, <<"a">> >>

\* the allow-list of the sub-config `config` of the channel `choice`
AllowListOf(choice, config) ==
    CASE choice = "IMessage" -> config.allowed_contacts
      [] choice = "Signal" -> config.allowed_from
      [] choice = "WhatsApp" -> config.allowed_numbers
      [] choice = "Linq" -> config.allowed_senders
      [] choice = "Nostr" -> config.allowed_pubkeys
      [] OTHER -> config.allowed_users

\* the text in which the operator lists whom the channel allows, for the
\* channels that ask for such a list: the text typed while ChannelAuxEntry
\* is current
TypedAllowList(a) ==
    IF a.channel_choice = "IMessage" THEN a.channel_token_input
    ELSE a.channel_aux_input

ListChannels == BotChannels \cup {"IMessage", "Nostr"}

\* C16: a populated channel sub-config has the allow-list ["*"], or the
\* non-empty list the operator entered; it is never empty
C16_AllowListDefaultsToStar ==
    (Confirmed("ChannelAuxEntry") /\ app.channel_choice # "Webhook"
        /\ IsSome(CurrentSub(app))) =>
        LET allow == AllowListOf(app.channel_choice, Unwrap(CurrentSub(app)))
            entered == CsvFields(TypedAllowList(app))
        IN  /\ allow # <<>>
            /\ \/ allow = <<Str("*")>>
               \/ /\ app.channel_choice \in ListChannels
                  /\ entered # <<>>
                  /\ allow = entered

\* C17: for IMessage the text typed while ChannelAuxEntry is current is, once
\* the step is confirmed, the allowed-contacts list of the IMessage sub-config
C17_IMessageContacts ==
    (Confirmed("ChannelAuxEntry") /\ app.channel_choice = "IMessage") =>
        /\ IsSome(CurrentSub(app))
        /\ Unwrap(CurrentSub(app)).allowed_contacts = CsvFields(TypedAllowList(app))

----------------------------------------------------------------------------
(* The tunnel document (SpecSegment) *)

\* the provider tag, and the name of the sub-struct, of a tunnel choice
TunnelTag(choice) ==
    CASE choice = "Cloudflare" -> "cloudflare"
      [] choice = "Tailscale" -> "tailscale"
      [] choice = "Ngrok" -> "ngrok"
      [] choice = "Custom" -> "custom"
      [] OTHER -> "none"

TunnelSubs == {"cloudflare", "tailscale", "ngrok", "custom"}

\* a text stored as optional: absent when nothing is left of it
Optional(text) == IF Strip(text) = <<>> THEN <<>> ELSE <<Strip(text)>>

\* the tunnel document has the tag of `choice`, populates the sub-struct of
\* that tag and no other, and holds the texts and the toggle of `a`
TunnelDocumentOf(a, tunnel) ==
    LET tag == TunnelTag(a.tunnel_choice)
        primary == Strip(a.tunnel_primary_input)
        secondary == Optional(a.tunnel_secondary_input)
    IN  /\ tunnel.provider = Str(tag)
        /\ \A sub \in TunnelSubs : IsSome(tunnel[sub]) <=> sub = tag
        /\ Cardinality({sub \in TunnelSubs : IsSome(tunnel[sub])}) <= 1
        /\ tag = "cloudflare" => Unwrap(tunnel.cloudflare).token = primary
        /\ tag = "tailscale" =>
              /\ Unwrap(tunnel.tailscale).funnel = a.tunnel_toggle
              /\ Unwrap(tunnel.tailscale).hostname = secondary
        /\ tag = "ngrok" =>
              /\ Unwrap(tunnel.ngrok).auth_token = primary
              /\ Unwrap(tunnel.ngrok).domain = secondary
        /\ tag = "custom" =>
              /\ Unwrap(tunnel.custom).start_command = primary
              /\ Unwrap(tunnel.custom).health_url = secondary

\* C18: for every tunnel choice, texts and toggle value, tunnel_config gives the
\* tag of the choice and populates the sub-struct of that tag and no other; an
\* empty secondary text is stored as absent, and Ngrok with the primary tok_1
\* and an empty secondary gives provider ngrok, auth_token tok_1 and no domain
C18_TunnelDocument ==
    pc = "segment" =>
        /\ \A i \in DOMAIN TunnelChoices, funnel \in BOOLEAN :
              LET a == [app EXCEPT !.tunnel_choice = TunnelChoices[i],
                                   !.tunnel_toggle = funnel]
              IN  TunnelDocumentOf(a, tunnel_config(a))
        /\ tunnel_config([app EXCEPT !.tunnel_choice = "Ngrok",
                                     !.tunnel_primary_input = <<"t", "o", "k", "_", "1">>,
                                     !.tunnel_secondary_input = <<>>])
             = [provider |-> Str("ngrok"), cloudflare |-> None, tailscale |-> None,
                ngrok |-> Some([auth_token |-> <<"t", "o", "k", "_", "1">>,
                                domain |-> None]),
                custom |-> None]

\* C18: the operator chose Ngrok, typed a token and left the domain blank, and
\* the tunnel document has the token and no domain
C18_Witness ==
    /\ pc = "segment"
    /\ app.step = "ToolModeSelection"
    /\ app.tunnel_choice = "Ngrok"
    /\ app.tunnel_primary_input = <<"a">>
    /\ app.tunnel_secondary_input = <<" ">>
    /\ tunnel_config(app).ngrok = Some([auth_token |-> <<"a">>, domain |-> None])

----------------------------------------------------------------------------
(* Synthesis on its own (SpecSynthesis): finalize_config applied to wizard
   states that differ in the stored provider, model, endpoint and key *)

\* stored provider, model, endpoint and key values: empty, blank, and with
\* blanks around them
StoredProviders == {<<>>, <<" ">>, <<" ", "vllm", " ">>}
StoredModels == {<<>>, <<" ", " ">>, <<" ", "model-b">>}
StoredUrls == {None, Some(Str("http://local"))}
StoredKeys == {<<>>, <<" ">>, <<"k", " ">>}

\* the wizard states synthesis is applied to: either mode, the directories
\* resolved; with each channel chosen and its sub-config built from an empty
\* or a typed token, or with and without answers to the other steps
SynthesisStarts ==
    {apply_channel_token([App_new(FALSE) EXCEPT
                             !.mode = mode,
                             !.config_dir = DefaultConfigDir,
                             !.config_path = join(DefaultConfigDir, "config.toml"),
                             !.workspace_dir = DefaultWorkspaceDir,
                             !.api_key = k,
                             !.channel_choice = ChannelChoices[c],
                             !.channel_token_input = token]) :
        mode \in {"FullOnboarding", "UpdateProviderOnly"}, k \in StoredKeys,
        c \in DOMAIN ChannelChoices, token \in {<<>>, Str("t")}}
    \cup
    UNION { OtherAnswers([App_new(FALSE) EXCEPT
                             !.mode = mode,
                             !.config_dir = DefaultConfigDir,
                             !.config_path = join(DefaultConfigDir, "config.toml"),
                             !.workspace_dir = DefaultWorkspaceDir,
                             !.provider = p, !.model = m,
                             !.api_url = u, !.api_key = k]) :
              mode \in {"FullOnboarding", "UpdateProviderOnly"}, p \in StoredProviders, m \in StoredModels,
              u \in StoredUrls, k \in StoredKeys }

InitSynthesis ==
    /\ app \in SynthesisStarts
    /\ fs \in InitialFiles
    /\ pc = "finalize_config"
    /\ raw_mode = TRUE
    /\ alt_screen = TRUE
    /\ active_dir = None
    /\ scaffolded = None
    /\ autostart = FALSE
    /\ loop_result = "running"
    /\ result = None
    /\ hist = [esc |-> FALSE, finalize_calls |-> 0, finalize_step |-> "-",
               finalize_mode |-> "-", raw_acquired |-> TRUE,
               last |-> [code |-> "-", step |-> "-"], toggled |-> None, fs0 |-> fs]
    /\ keys = 0

\* finalize_config(&app): the wizard state is borrowed and outlives the call
Synthesize ==
    /\ pc = "finalize_config"
    /\ \E fail \in FailurePoints :
           LET out == finalize_config(app, fs, active_dir, scaffolded, autostart, fail)
           IN  /\ fs' = out.fs
               /\ active_dir' = out.active_dir
               /\ scaffolded' = out.scaffolded
               /\ autostart' = out.autostart
               /\ result' = Some([ok |-> out.ok, error |-> out.error,
                                  config |-> out.config])
    /\ pc' = "finalized"
    /\ UNCHANGED <<app, raw_mode, alt_screen, loop_result, hist, keys>>

NextSynthesis == Synthesize

SpecSynthesis == InitSynthesis /\ [][NextSynthesis]_vars

\* the provider identity that `config` must hold for the stored values of `a`
IdentityOf(a, config) ==
    LET provider == IF Strip(a.provider) = <<>> THEN Str("openrouter")
                    ELSE Strip(a.provider)
    IN  /\ config.default_provider = <<provider>>
        /\ config.default_model =
               << IF Strip(a.model) = <<>> THEN default_model_for_provider(provider)
                  ELSE Strip(a.model) >>
        /\ config.api_url = a.api_url
        /\ config.api_key = Optional(a.api_key)
        /\ config.api_key # <<<<>>>>

\* C19: in both modes the document that synthesis returns has the trimmed
\* stored provider, or openrouter when that is empty; the trimmed stored model,
\* or the provider's default when that is empty; the stored optional api url;
\* and the trimmed api key, absent when nothing is left of it, whatever the
\* existing file held
C19_IdentityOverwritten ==
    (pc = "finalized" /\ Returned.ok) => IdentityOf(app, Returned.config)

\* C19: an update over an existing file has returned a document with the stored
\* provider without the blanks around it, the default model of that provider
\* and no api key, where the stored key was blank and the file had another
\* provider, model and key
C19_Witness ==
    /\ pc = "finalized"
    /\ Returned.ok
    /\ app.mode = "UpdateProviderOnly"
    /\ hist.fs0 = join(DefaultConfigDir, "config.toml") :> TomlFile(ExistingConfig)
    /\ app.provider = <<" ", "vllm", " ">>
    /\ app.api_key = <<" ">>
    /\ Returned.config.default_provider = Some(Str("vllm"))
    /\ Returned.config.default_model = Some(default_model_for_provider(Str("vllm")))
    /\ Returned.config.api_key = None

----------------------------------------------------------------------------
(* The memory auto-save toggle (Spec) *)

\* C20: in FullOnboarding the auto-save flag of the document is the value the
\* operator last set with the toggle key on MemorySelection, and the memory
\* config is otherwise the chosen backend's profile defaults
C20_ToggleReachesDocument ==
    (pc = "returned" /\ Returned.ok /\ hist.finalize_mode = "FullOnboarding"
        /\ IsSome(hist.toggled)) =>
        /\ Returned.config.memory.auto_save = Unwrap(hist.toggled)
        /\ \E backend \in {selectable_memory_backends[i].key :
                              i \in DOMAIN selectable_memory_backends} :
              Returned.config.memory =
                  [memory_config_defaults_for_backend(backend) EXCEPT
                      !.auto_save = Unwrap(hist.toggled)]

----------------------------------------------------------------------------
(* The channel-autostart signal (SpecSynthesis) *)

\* synthesis has returned a document
Synthesized == pc = "finalized" /\ Returned.ok

\* C21 as stated: after a successful synthesis the autostart signal is set
\* exactly when the mode is FullOnboarding, some non-CLI channel sub-config,
\* the webhook included, is populated and an api key is present
C21_AutostartAnyChannel ==
    Synthesized =>
        (autostart <=> /\ app.mode = "FullOnboarding"
                       /\ Populated(app) # {}
                       /\ Strip(app.api_key) # <<>>)

\* C21: after a successful synthesis the autostart signal is set exactly when
\* the mode is FullOnboarding, some non-CLI channel sub-config other than the
\* webhook is populated and an api key is present; it is never set in
\* UpdateProviderOnly
C21_AutostartButWebhook ==
    Synthesized =>
        /\ autostart <=> /\ app.mode = "FullOnboarding"
                         /\ Populated(app) \ {"webhook"} # {}
                         /\ Strip(app.api_key) # <<>>
        /\ app.mode = "UpdateProviderOnly" => ~autostart

\* C21: a FullOnboarding synthesis with a populated Telegram sub-config and an
\* api key has succeeded and set the signal
C21_Witness ==
    /\ Synthesized
    /\ app.mode = "FullOnboarding"
    /\ Populated(app) = {"telegram"}
    /\ Returned.config.api_key = Some(Str("k"))
    /\ autostart

----------------------------------------------------------------------------
(* Welcome and ConfigModeSelection (Spec) *)

\* the key-handling loop has just processed Enter while `step` was current
LoopConfirmed(step) == pc = "loop" /\ hist.last = [code |-> "Enter", step |-> step]

OnboardingModes == {"FullOnboarding", "UpdateProviderOnly"}

\* C22: confirming Welcome goes to ConfigModeSelection exactly when a file
\* exists at the resolved configuration path and the session was not
\* force-started; otherwise it sets the mode to FullOnboarding and goes to
\* WorkspaceSetup
C22_WelcomeRouting ==
    /\ LoopConfirmed("Welcome") =>
          IF app.config_path \in DOMAIN fs /\ ~app.force
          THEN app.step = "ConfigModeSelection"
          ELSE app.step = "WorkspaceSetup" /\ app.mode = "FullOnboarding"
    /\ (pc = "loop" /\ app.step = "Welcome") =>
          \A mode \in OnboardingModes, force \in BOOLEAN :
             LET before == [app EXCEPT !.mode = mode, !.force = force]
                 after == handle_key(ui(before), Key("Enter"), fs, NotFetched)
             IN  IF app.config_path \in DOMAIN fs /\ ~force
                 THEN after.step = "ConfigModeSelection" /\ after.mode = mode
                 ELSE after.step = "WorkspaceSetup" /\ after.mode = "FullOnboarding"

\* C22: Welcome has been confirmed over an existing file in a session that was
\* not force-started, and ConfigModeSelection is current
C22_Witness ==
    /\ LoopConfirmed("Welcome")
    /\ app.config_path \in DOMAIN fs
    /\ ~app.force
    /\ app.step = "ConfigModeSelection"

\* C28: confirming ConfigModeSelection sets the mode to FullOnboarding when
\* index 0 is selected and to UpdateProviderOnly for any other selection, and
\* goes to WorkspaceSetup; the list starts with index 1 selected, so confirming
\* without moving gives UpdateProviderOnly
C28_ConfigModeRouting ==
    /\ LoopConfirmed("ConfigModeSelection") =>
          /\ app.step = "WorkspaceSetup"
          /\ app.mode = IF app.mode_list = 0 THEN "FullOnboarding"
                        ELSE "UpdateProviderOnly"
    /\ (LoopConfirmed("Welcome") /\ app.step = "ConfigModeSelection") =>
          /\ app.mode_list = 1
          /\ handle_key(ui(app), Key("Enter"), fs, NotFetched).mode
                 = "UpdateProviderOnly"
    /\ (pc = "loop" /\ app.step = "ConfigModeSelection") =>
          \A index \in {NoneSel, 0, 1}, mode \in OnboardingModes :
             LET before == [app EXCEPT !.mode_list = index, !.mode = mode]
                 after == next_step(before, fs, NotFetched)
             IN  /\ after.step = "WorkspaceSetup"
                 /\ after.mode = IF index = 0 THEN "FullOnboarding"
                                 ELSE "UpdateProviderOnly"
                 /\ index # NoneSel =>
                       handle_key(ui(before), Key("Enter"), fs, NotFetched) = after

\* C28: ConfigModeSelection has been confirmed without moving the selection,
\* and the mode is UpdateProviderOnly
C28_Witness ==
    /\ LoopConfirmed("ConfigModeSelection")
    /\ keys = 0
    /\ app.mode_list = 1
    /\ app.mode = "UpdateProviderOnly"
    /\ app.step = "WorkspaceSetup"

----------------------------------------------------------------------------
(* The dashboard: tui_app (SpecDashboard)

   In this specification `app` holds the AppState together with the &Config
   that run_app_loop is handed, and pc is "dashboard" while the loop runs. *)

\* enum MenuItem, in the order of AppState::new's items
MenuItems ==
    << "Home", "Status", "Providers", "ConfigSchema", "EstopStatus", "Channels",
       "ChannelDoctor", "AuthProfiles", "ModelsList", "ModelsStatus",
       "ModelsRefresh", "DoctorFull", "DoctorModels", "Doctor", "MemoryList",
       "MemoryStats", "HardwareDiscover", "PeripheralList" >>

\* AppState::new
AppState_new ==
    [menu |-> 0,
     items |-> MenuItems,
     output |-> << Str("ZeroClaw TUI Dashboard"), <<>>,
                   Str("Use up/down to select, Enter to run, q to quit.") >>]

\* AppState::selected_item
selected_item(a) ==
    LET index == selected_or(a.menu, 0)
        item == get(a.items, index)
    IN  IF IsSome(item) THEN Unwrap(item) ELSE "Home"

DecimalDigits == <<"0", "1", "2", "3", "4", "5", "6", "7", "8", "9">>

RECURSIVE to_string(_)
\* the decimal text of a number, as `{}` formats it
to_string(n) ==
    IF n < 10 THEN <<DecimalDigits[n + 1]>>
    ELSE to_string(n \div 10) \o <<DecimalDigits[(n % 10) + 1]>>

\* `if flag { yes } else { no }`
either(flag, yes, no) == IF flag THEN Str(yes) ELSE Str(no)

\* the channels of ChannelsConfig::channels(), with whether each is configured
channels(channels_config) ==
    [i \in 1..(Len(ChannelChoices) - 1) |->
        [name |-> ChannelChoices[i + 1],
         configured |-> IsSome(channels_config.sub[ChannelKeyOf(ChannelChoices[i + 1])])]]

\* providers::list_providers(), as the collaborator reports it
ProviderLists ==
    { <<>>,
      << [name |-> Str("openrouter"), display_name |-> Str("OpenRouter"),
          aliases |-> <<>>, local |-> FALSE],
         [name |-> Str("vllm"), display_name |-> Str("vLLM"),
          aliases |-> <<Str("v-llm")>>, local |-> TRUE] >> }

\* what the collaborators answer while one menu action runs: the outcome of the
\* command it runs, the estop state, the auth profiles, the providers and the
\* serialized schema
DashboardEnvs ==
    { [res |-> [ok |-> ok, error |-> error],
       estop |-> [engaged |-> many, kill_all |-> many, network_kill |-> FALSE,
                  blocked_domains |-> IF many THEN <<Str("a.example"), Str("b.example")>>
                                      ELSE <<>>,
                  frozen_tools |-> IF many THEN <<Str("shell")>> ELSE <<>>,
                  updated_at |-> IF many THEN Some(Str("2026-01-01")) ELSE None],
       profiles |-> IF many
                    THEN << [id |-> Str("p1"), provider |-> Str("openrouter"),
                             active |-> TRUE],
                            [id |-> Str("p2"), provider |-> Str("vllm"),
                             active |-> FALSE] >>
                    ELSE <<>>,
       providers |-> providers,
       schema |-> IF many THEN << Str("{"), Str("}") >> ELSE <<>>] :
      ok \in BOOLEAN, error \in {<<>>, Str("boom")}, many \in BOOLEAN,
      providers \in ProviderLists }

\* the documents the dashboard is started over
DashboardConfigs ==
    { [config_path |-> path,
       workspace_dir |-> DefaultWorkspaceDir,
       default_provider |-> provider,
       default_model |-> IF provider = None THEN None ELSE Some(Str("model-b")),
       api_key |-> IF provider = None THEN None ELSE Some(Str("k")),
       channels_config |->
          IF provider = None THEN ChannelsConfig_default
          ELSE [ChannelsConfig_default EXCEPT
                   !.sub["matrix"] = ExistingConfig.channels_config.sub["matrix"]],
       memory |-> [backend |-> Str("sqlite"), auto_save |-> provider = None,
                   conversation_retention_days |-> 30,
                   embedding_provider |-> Str("none"),
                   embedding_model |-> Str("text-embedding-3-small"),
                   embedding_dimensions |-> 1536],
       security |-> [estop |-> [enabled |-> estop], otp |-> [enabled |-> FALSE]]] :
      path \in {<<>>, join(DefaultConfigDir, "config.toml")},
      provider \in {None, Some(<<" ", "anthropic", " ">>)},
      estop \in BOOLEAN }

\* a line that joins the entries of `list` with ", "
RECURSIVE join_comma(_)
join_comma(list) ==
    IF list = <<>> THEN <<>>
    ELSE IF Len(list) = 1 THEN list[1]
    ELSE list[1] \o <<", ">> \o join_comma(Tail(list))

\* the match on a command's Result that the (run) actions share
command_lines(title, done, failed, res) ==
    IF res.ok
    THEN <<Str(title), <<>>>> \o done
    ELSE <<Str(title), <<>>, Str(failed) \o res.error>>

config_schema_lines(env) ==
    LET pretty == IF env.res.ok THEN env.schema
                  ELSE << Str("<schema serialization failed: ") \o env.res.error
                             \o Str(">") >>
    IN  << Str("Config Schema"), <<>>, Str("Previewing first 120 lines: ") >>
            \o SubSeq(pretty, 1, IF Len(pretty) < 120 THEN Len(pretty) ELSE 120)

\* the Err arm returning no line at all
estop_status_lines_silent(config, env) ==
    IF ~config.security.estop.enabled
    THEN << Str("Estop Status"), <<>>, Str("Emergency stop is disabled in config.") >>
    ELSE <<>>

estop_status_lines(config, env) ==
    IF ~config.security.estop.enabled
    THEN << Str("Estop Status"), <<>>, Str("Emergency stop is disabled in config.") >>
    ELSE IF ~IsSome(parent(config.config_path))
    THEN << Str("Estop Status"), <<>>,
            Str("Failed to load estop status: ")
                \o Str("Config path must have a parent directory") >>
    ELSE IF ~env.res.ok
    THEN << Str("Estop Status"), <<>>,
            Str("Failed to load estop status: ") \o env.res.error >>
    ELSE LET state == env.estop
         IN  << Str("Estop Status"), <<>>,
                Str("engaged: ") \o either(state.engaged, "yes", "no"),
                Str("kill_all: ") \o either(state.kill_all, "active", "inactive"),
                Str("network_kill: ")
                    \o either(state.network_kill, "active", "inactive"),
                Str("domain_blocks: ")
                    \o (IF state.blocked_domains = <<>> THEN Str("(none)")
                        ELSE join_comma(state.blocked_domains)),
                Str("tool_freeze: ")
                    \o (IF state.frozen_tools = <<>> THEN Str("(none)")
                        ELSE join_comma(state.frozen_tools)) >>
             \o (IF IsSome(state.updated_at)
                 THEN << Str("updated_at: ") \o Unwrap(state.updated_at) >>
                 ELSE <<>>)

doctor_full_lines(env) ==
    command_lines("Doctor (run)",
                  << Str("Doctor run completed."),
                     Str("Detailed diagnostics were emitted to terminal output.") >>,
                  "Doctor run failed: ", env.res)

doctor_models_lines(env) ==
    command_lines("Doctor Models (run)",
                  << Str("Model doctor probe completed (cache-first)."),
                     Str("Detailed probe output was emitted to terminal output.") >>,
                  "Model doctor probe failed: ", env.res)

memory_list_lines(env) ==
    command_lines("Memory List (run)",
                  << Str("Memory list command completed (limit=20, offset=0)."),
                     Str("Detailed entries were emitted to terminal output.") >>,
                  "Memory list failed: ", env.res)

hardware_discover_lines(env) ==
    command_lines("Hardware Discover (run)",
                  << Str("Hardware discovery completed."),
                     Str("Detailed hardware output was emitted to terminal output.") >>,
                  "Hardware discovery failed: ", env.res)

peripheral_list_lines(env) ==
    command_lines("Peripheral List (run)",
                  << Str("Peripheral listing completed."),
                     Str("Detailed peripheral output was emitted to terminal output.") >>,
                  "Peripheral listing failed: ", env.res)

channel_doctor_lines(env) ==
    command_lines("Channel Doctor (run)",
                  << Str("Channel doctor completed successfully."),
                     Str("Detailed probe logs are emitted to terminal output.") >>,
                  "Channel doctor failed: ", env.res)

models_refresh_lines(config, env) ==
    LET provider_label == IF IsSome(config.default_provider)
                          THEN Unwrap(config.default_provider) ELSE Str("default")
    IN  IF env.res.ok
        THEN << Str("Models Refresh (run)"), <<>>,
                Str("Model refresh completed for provider: ") \o provider_label,
                Str("Detailed refresh logs are emitted to terminal output.") >>
        ELSE << Str("Models Refresh (run)"), <<>>,
                Str("Model refresh failed for provider ") \o provider_label
                    \o Str(": ") \o env.res.error >>

channel_lines(config) ==
    LET list == channels(config.channels_config)
    IN  << Str("Channels"), <<>>, Str("CLI: configured") >>
            \o [i \in 1..Len(list) |->
                   Str(list[i].name) \o Str(": ")
                       \o either(list[i].configured, "configured", "not configured")]

auth_profile_lines(env) ==
    IF ~env.res.ok
    THEN << Str("Auth Profiles"), <<>>,
            Str("Failed to load auth profiles: ") \o env.res.error >>
    ELSE LET head == << Str("Auth Profiles"), <<>>,
                        Str("Total profiles: ") \o to_string(Len(env.profiles)) >>
         IN  IF env.profiles = <<>>
             THEN head \o << Str("No auth profiles configured.") >>
             ELSE head \o [i \in 1..Len(env.profiles) |->
                              Str("- ") \o env.profiles[i].id \o Str(" (")
                                  \o env.profiles[i].provider \o Str(")")
                                  \o (IF env.profiles[i].active THEN Str(" [active]")
                                      ELSE <<>>)]

\* `default_provider.as_deref().unwrap_or("openrouter").trim()`
active_provider(config) ==
    trim(IF IsSome(config.default_provider) THEN Unwrap(config.default_provider)
         ELSE Str("openrouter"))

status_lines(config) ==
    << Str("Status"), <<>>,
       Str("Version: ") \o Str("CARGO_PKG_VERSION"),
       Str("Workspace: ") \o config.workspace_dir,
       Str("Config: ") \o config.config_path,
       Str("Provider: ") \o (IF IsSome(config.default_provider)
                             THEN Unwrap(config.default_provider)
                             ELSE Str("openrouter")),
       Str("Model: ") \o (IF IsSome(config.default_model)
                          THEN Unwrap(config.default_model) ELSE Str("(default)")),
       Str("Memory backend: ") \o config.memory.backend,
       Str("Auto-save: ") \o either(config.memory.auto_save, "on", "off") >>

provider_lines(config, env) ==
    LET providers == env.providers
        active == active_provider(config)
    IN  << Str("Providers"), <<>>,
           Str("Total providers: ") \o to_string(Len(providers)) >>
            \o [i \in 1..Len(providers) |->
                   Str("- ") \o providers[i].name \o Str(": ")
                       \o providers[i].display_name
                       \o (IF providers[i].local THEN Str(" [local]") ELSE <<>>)
                       \o (IF providers[i].name = active
                              \/ \E k \in 1..Len(providers[i].aliases) :
                                    providers[i].aliases[k] = active
                           THEN Str(" [active]") ELSE <<>>)]

models_list_lines(config) ==
    LET provider == active_provider(config)
        models == curated_models_for_provider(provider)
        shown == SubSeq(models, 1, IF Len(models) < 20 THEN Len(models) ELSE 20)
        lines == << Str("Models List (curated)"), <<>>,
                    Str("Provider: ") \o provider,
                    Str("Curated models: ") \o to_string(Len(models)) >>
                    \o [i \in 1..Len(shown) |->
                           to_string(i) \o Str(". ") \o shown[i][1] \o Str(" - ")
                               \o shown[i][2]]
    IN  IF Len(lines) = 4 THEN lines \o << Str("No curated models available.") >>
        ELSE lines

models_status_lines(config) ==
    LET provider == active_provider(config)
        selected == IF IsSome(config.default_model) THEN Unwrap(config.default_model)
                    ELSE default_model_for_provider(provider)
    IN  << Str("Models Status"), <<>>,
           Str("Provider: ") \o provider,
           Str("Configured model: ") \o selected,
           Str("Curated entries: ")
               \o to_string(Len(curated_models_for_provider(provider))) >>

doctor_lines(config, files) ==
    LET list == channels(config.channels_config)
        configured_channels == Cardinality({i \in 1..Len(list) : list[i].configured})
    IN  << Str("Doctor (readonly quick checks)"), <<>>,
           Str("Config file exists: ")
               \o either(config.config_path \in DOMAIN files, "yes", "no"),
           Str("Workspace exists: ")
               \o either(config.workspace_dir \in DOMAIN files, "yes", "no"),
           Str("API key configured: ") \o either(IsSome(config.api_key), "yes", "no"),
           Str("Configured channels: ") \o to_string(configured_channels),
           Str("OTP enabled: ") \o either(config.security.otp.enabled, "true", "false"),
           Str("E-stop enabled: ")
               \o either(config.security.estop.enabled, "true", "false") >>

memory_stats_lines(config) ==
    << Str("Memory Stats"), <<>>,
       Str("Backend: ") \o config.memory.backend,
       Str("Auto-save: ") \o either(config.memory.auto_save, "on", "off"),
       Str("Retention days: ") \o to_string(config.memory.conversation_retention_days),
       Str("Embedding: ") \o config.memory.embedding_provider \o Str("/")
           \o config.memory.embedding_model \o Str(" (dim=")
           \o to_string(config.memory.embedding_dimensions) \o Str(")"),
       Str("Workspace: ") \o config.workspace_dir >>

\* actions::run
run(item, config, files, env) ==
    CASE item = "Home" ->
           << Str("ZeroClaw TUI Dashboard"), <<>>,
              Str("This dashboard provides read-only command views."),
              Str("Select a menu item and press Enter.") >>
      [] item = "Status" -> status_lines(config)
      [] item = "Providers" -> provider_lines(config, env)
      [] item = "ConfigSchema" -> config_schema_lines(env)
      [] item = "EstopStatus" -> estop_status_lines(config, env)
      [] item = "Channels" -> channel_lines(config)
      [] item = "ChannelDoctor" -> channel_doctor_lines(env)
      [] item = "AuthProfiles" -> auth_profile_lines(env)
      [] item = "ModelsList" -> models_list_lines(config)
      [] item = "ModelsStatus" -> models_status_lines(config)
      [] item = "ModelsRefresh" -> models_refresh_lines(config, env)
      [] item = "DoctorFull" -> doctor_full_lines(env)
      [] item = "DoctorModels" -> doctor_models_lines(env)
      [] item = "Doctor" -> doctor_lines(config, files)
      [] item = "MemoryList" -> memory_list_lines(env)
      [] item = "MemoryStats" -> memory_stats_lines(config)
      [] item = "HardwareDiscover" -> hardware_discover_lines(env)
      [] item = "PeripheralList" -> peripheral_list_lines(env)

InitDashboard ==
    /\ \E config \in DashboardConfigs :
          app = [state |-> AppState_new, config |-> config]
    /\ fs \in {<<>>, join(DefaultConfigDir, "config.toml") :> TomlFile(ExistingConfig)}
    /\ pc = "dashboard"
    /\ raw_mode = TRUE
    /\ alt_screen = TRUE
    /\ active_dir = None
    /\ scaffolded = None
    /\ autostart = FALSE
    /\ loop_result = "running"
    /\ result = None
    /\ hist = [esc |-> FALSE, finalize_calls |-> 0, finalize_step |-> "-",
               finalize_mode |-> "-", raw_acquired |-> TRUE,
               last |-> [code |-> "-", step |-> "-"], toggled |-> None, fs0 |-> fs]
    /\ keys = 0

\* one iteration of tui_app's run_app_loop that reads a key and goes on
\* with `state`
DashboardKey(state) ==
    /\ app' = [app EXCEPT !.state = state]
    /\ UNCHANGED <<pc, raw_mode, alt_screen, fs, active_dir, scaffolded, autostart,
                   loop_result, result, hist, keys>>

\* KeyCode::Up | KeyCode::Char('k')
DashboardUp ==
    /\ pc = "dashboard"
    /\ DashboardKey([app.state EXCEPT
                        !.menu = saturating_sub(selected_or(app.state.menu, 0), 1)])

\* KeyCode::Down | KeyCode::Char('j')
DashboardDown ==
    /\ pc = "dashboard"
    /\ LET next == selected_or(app.state.menu, 0) + 1
           last == saturating_sub(Len(app.state.items), 1)
       IN  DashboardKey([app.state EXCEPT
                            !.menu = IF next < last THEN next ELSE last])

\* KeyCode::Enter
DashboardEnter ==
    /\ pc = "dashboard"
    /\ \E env \in DashboardEnvs :
          DashboardKey([app.state EXCEPT
                           !.output = run(selected_item(app.state), app.config,
                                          fs, env)])

\* KeyCode::Char('q') | KeyCode::Esc, and the `?` on draw, poll and read
DashboardLeave ==
    /\ pc = "dashboard"
    /\ pc' = "returned"
    /\ \E res \in {[ok |-> TRUE, error |-> <<>>, config |-> <<>>], Err("run_app_loop")} :
          result' = Some(res)
    /\ app' = Dropped
    /\ UNCHANGED <<raw_mode, alt_screen, fs, active_dir, scaffolded, autostart,
                   loop_result, hist, keys>>

NextDashboard ==
    \/ DashboardUp
    \/ DashboardDown
    \/ DashboardEnter
    \/ DashboardLeave

SpecDashboard == InitDashboard /\ [][NextDashboard]_vars

\* `suffix` ends `line`
EndsWith(line, suffix) ==
    /\ Len(line) >= Len(suffix)
    /\ SubSeq(line, Len(line) - Len(suffix) + 1, Len(line)) = suffix

\* the menu items whose action runs a command that can fail
FallibleItems ==
    { "ChannelDoctor", "AuthProfiles", "ModelsRefresh", "DoctorFull", "DoctorModels",
      "MemoryList", "HardwareDiscover", "PeripheralList" }

\* the output has lines, the first of them a title, and it shows `error`
Rendered(output, error) ==
    /\ Len(output) >= 3
    /\ output[1] # <<>>
    /\ \E i \in 1..Len(output) : output[i] # <<>> /\ EndsWith(output[i], error)

\* C23: for every menu item, document and answer of the collaborators, running
\* the item's action gives a non-empty list of lines; when the command behind
\* the item fails, the lines show the failure, and the loop goes on
C23_MenuItemsProduceOutput ==
    pc = "dashboard" =>
        /\ Len(app.state.output) > 0
        /\ \A k \in 1..Len(app.state.output) : app.state.output[k] \in Seq(STRING)
        /\ \A env \in DashboardEnvs :
              LET item == selected_item(app.state)
                  output == run(item, app.config, fs, env)
              IN  /\ Len(output) > 0
                  /\ (~env.res.ok /\ (item \in FallibleItems
                                        \/ (item = "EstopStatus"
                                              /\ app.config.security.estop.enabled
                                              /\ IsSome(parent(app.config.config_path)))))
                        => Rendered(output, env.res.error)

\* C23: the estop action has run over a document with the emergency stop
\* enabled while loading the estop state failed, and the output shows the failure
C23_Witness ==
    /\ pc = "dashboard"
    /\ selected_item(app.state) = "EstopStatus"
    /\ app.config.security.estop.enabled
    /\ app.state.output = << Str("Estop Status"), <<>>,
                             <<"Failed to load estop status: ", "boom">> >>

----------------------------------------------------------------------------
(* Tunnel, tool-mode, model and style routing (SpecSegment) *)

\* C24: confirming TunnelSelection maps index 0..4 to None, Cloudflare,
\* Tailscale, Ngrok, Custom and goes to ToolModeSelection for None and to
\* TunnelPrimaryEntry otherwise; confirming TunnelPrimaryEntry goes to
\* ToolModeSelection for Cloudflare and to TunnelSecondaryEntry for the others;
\* TunnelSecondaryEntry is never current for Cloudflare and always goes to
\* ToolModeSelection
C24_TunnelRouting ==
    /\ Confirmed("TunnelSelection") =>
          /\ app.tunnel_list \in 0..4
          /\ app.tunnel_choice =
                <<"None", "Cloudflare", "Tailscale", "Ngrok", "Custom">>[app.tunnel_list + 1]
          /\ app.step = IF app.tunnel_list = 0 THEN "ToolModeSelection"
                        ELSE "TunnelPrimaryEntry"
    /\ Confirmed("TunnelPrimaryEntry") =>
          /\ app.tunnel_choice \in {"Cloudflare", "Tailscale", "Ngrok", "Custom"}
          /\ app.step = IF app.tunnel_choice = "Cloudflare" THEN "ToolModeSelection"
                        ELSE "TunnelSecondaryEntry"
    /\ Confirmed("TunnelSecondaryEntry") => app.step = "ToolModeSelection"
    /\ (pc = "segment" /\ app.step = "TunnelSecondaryEntry") =>
          app.tunnel_choice \in {"Tailscale", "Ngrok", "Custom"}

\* C24: TunnelPrimaryEntry has been confirmed for Cloudflare, and
\* ToolModeSelection is current
C24_Witness ==
    /\ Confirmed("TunnelPrimaryEntry")
    /\ app.tunnel_choice = "Cloudflare"
    /\ app.tunnel_primary_input = <<"a">>
    /\ app.step = "ToolModeSelection"

\* the Composio sub-config of the FullOnboarding document built from `a`
ComposioOf(a) == assemble([a EXCEPT !.mode = "FullOnboarding"], Config_default).composio

\* C25: confirming ToolModeSelection with index 1 sets Composio and goes to
\* ComposioApiKeyEntry, any other index sets Sovereign and goes past it; the
\* Composio sub-config of the FullOnboarding document is enabled only for
\* Composio, its key is absent when nothing is left of the typed key after
\* trimming, and Sovereign gives the default, disabled sub-config whatever the
\* key buffer holds
C25_ToolMode ==
    /\ Confirmed("ToolModeSelection") =>
          /\ app.tool_mode_choice = IF app.tool_mode_list = 1 THEN "Composio"
                                    ELSE "Sovereign"
          /\ app.step = IF app.tool_mode_list = 1 THEN "ComposioApiKeyEntry"
                        ELSE "SecretsEncryptChoice"
    /\ (pc = "segment" /\ app.step = "ComposioApiKeyEntry") =>
          app.tool_mode_choice = "Composio"
    /\ Confirmed("ComposioApiKeyEntry") => app.step = "SecretsEncryptChoice"
    /\ pc = "segment" =>
          /\ ComposioOf(app).enabled <=> app.tool_mode_choice = "Composio"
          /\ app.tool_mode_choice = "Composio" =>
                ComposioOf(app) = [enabled |-> TRUE,
                                   api_key |-> Optional(app.composio_key_input),
                                   entity_id |-> Str("default")]
          /\ \A text \in {<<>>, <<" ">>, <<"k">>} :
                ComposioOf([app EXCEPT !.tool_mode_choice = "Sovereign",
                                       !.composio_key_input = text])
                    = [enabled |-> FALSE, api_key |-> None, entity_id |-> Str("default")]

\* C25: Composio has been chosen and a blank key confirmed, and the document
\* has the sub-config enabled without a key
C25_Witness ==
    /\ Confirmed("ComposioApiKeyEntry")
    /\ app.tool_mode_choice = "Composio"
    /\ app.composio_key_input = <<" ">>
    /\ ComposioOf(app) = [enabled |-> TRUE, api_key |-> None, entity_id |-> Str("default")]

\* the state Enter leads to from the current one when no lookup is involved
EnterFrom(a) == handle_key(ui(a), Key("Enter"), fs, NotFetched)

\* the entry of the model list under the cursor
ModelUnderCursor(a) == a.available_models[a.model_list + 1]

\* C26: confirming ModelSelection with the sentinel under the cursor goes to
\* ModelCustomEntry and leaves model as it was; with any other entry it
\* stores that entry as model and goes to ChannelSelection; the transition
\* never makes the sentinel the model
C26_ModelSelection ==
    /\ (pc = "segment" /\ app.step = "ModelSelection") =>
          /\ app.model_list \in 0..(Len(app.available_models) - 1)
          /\ app.model # CUSTOM_MODEL_SENTINEL
          /\ IF ModelUnderCursor(app) = CUSTOM_MODEL_SENTINEL
             THEN EnterFrom(app) = [app EXCEPT !.step = "ModelCustomEntry"]
             ELSE EnterFrom(app) = [app EXCEPT !.model = ModelUnderCursor(app),
                                               !.step = "ChannelSelection"]
          /\ EnterFrom(app).model # CUSTOM_MODEL_SENTINEL
    /\ Confirmed("ModelSelection") =>
          /\ app.step = IF ModelUnderCursor(app) = CUSTOM_MODEL_SENTINEL
                        THEN "ModelCustomEntry" ELSE "ChannelSelection"
          /\ app.step = "ChannelSelection" => app.model = ModelUnderCursor(app)
          /\ app.model # CUSTOM_MODEL_SENTINEL

\* C26: an entry other than the default, and not the sentinel, was confirmed
C26_Witness ==
    /\ Confirmed("ModelSelection")
    /\ app.step = "ChannelSelection"
    /\ app.model_list > 0
    /\ app.model = ModelUnderCursor(app)

\* C26: the sentinel, listed by the catalog ahead of the last entry, was
\* confirmed and the custom step follows
C26_WitnessSentinel ==
    /\ Confirmed("ModelSelection")
    /\ app.step = "ModelCustomEntry"
    /\ app.model_list < Len(app.available_models) - 1

\* the six fixed communication styles, by index of the style list
FixedStyles ==
    <<Str("Be direct and concise."),
      Str("Be friendly, human, and conversational."),
      Str("Be professional and polished."),
      Str("Be expressive and playful when appropriate."),
      Str("Be technical and detailed."),
      Str("Adapt to the situation.")>>

\* the communication style handed to scaffolding from `a`
StyleOf(a) == project_context(a).communication_style

\* C27: confirming ProjectStyleSelection goes to ProjectStyleCustomEntry
\* exactly when index 6 is selected and to Confirmation otherwise; the style
\* handed to scaffolding is the fixed string of the index for 0..5 and the
\* typed custom text for 6, so that on reaching Confirmation the custom step
\* was the one just left exactly when the custom text is the style used
C27_CommunicationStyle ==
    /\ Confirmed("ProjectStyleSelection") =>
          app.step = IF app.project_style_list = 6 THEN "ProjectStyleCustomEntry"
                     ELSE "Confirmation"
    /\ (pc = "segment" /\ app.step = "ProjectStyleCustomEntry") =>
          app.project_style_list = 6
    /\ Confirmed("ProjectStyleCustomEntry") => app.step = "Confirmation"
    /\ (pc = "segment" /\ app.step = "Confirmation") =>
          /\ hist.last.code = "Enter"
          /\ hist.last.step \in {"ProjectStyleSelection", "ProjectStyleCustomEntry"}
          /\ hist.last.step = "ProjectStyleCustomEntry" <=> app.project_style_list = 6
          /\ app.project_style_list \in 0..5 =>
                /\ StyleOf(app) = FixedStyles[app.project_style_list + 1]
                /\ \A text \in {<<>>, <<"k">>} :
                      StyleOf([app EXCEPT !.project_style_custom_input = text])
                          = StyleOf(app)
          /\ app.project_style_list = 6 =>
                StyleOf(app) = Strip(app.project_style_custom_input)

\* C27: Custom was chosen and a text typed, and that text is the style used
C27_Witness ==
    /\ Confirmed("ProjectStyleCustomEntry")
    /\ app.step = "Confirmation"
    /\ app.project_style_custom_input # <<>>
    /\ StyleOf(app) = Strip(app.project_style_custom_input)
    /\ \A i \in 1..6 : StyleOf(app) # FixedStyles[i]

----------------------------------------------------------------------------
(* The order of the side effects of synthesis (SpecSynthesis) *)

\* the document finalize_config assembles from the wizard state and the files
\* it started with
AssembledDocument == assemble(app, load_base(app, hist.fs0, "none").base)

\* the file at the config path is the assembled document and no other file
\* has changed
DocumentSaved ==
    /\ load_base(app, hist.fs0, "none").ok
    /\ fs = (app.config_path :> TomlFile(AssembledDocument)) @@ hist.fs0

\* the active config directory is the one of the config path
DirectoryRecorded == active_dir = parent(app.config_path) /\ IsSome(active_dir)

\* the workspace of the document has been scaffolded
WorkspaceScaffolded ==
    scaffolded = Some([dir |-> AssembledDocument.workspace_dir,
                       ctx |-> project_context(app)])

\* C29: the file system changes only by the save of the fully assembled
\* document; the active config directory is recorded only after a successful
\* save; scaffolding and the autostart signal happen only in FullOnboarding
\* and only after the save and the recording succeeded, the signal only after
\* the scaffolding; UpdateProviderOnly never scaffolds; and a failure leaves
\* the effects of the stages before it and none of the later ones
C29_SideEffectOrder ==
    pc = "finalized" =>
        /\ fs # hist.fs0 => DocumentSaved
        /\ IsSome(active_dir) => DocumentSaved /\ DirectoryRecorded
        /\ IsSome(scaffolded) =>
              /\ app.mode = "FullOnboarding"
              /\ DocumentSaved /\ DirectoryRecorded /\ WorkspaceScaffolded
        /\ autostart =>
              /\ app.mode = "FullOnboarding"
              /\ DocumentSaved /\ DirectoryRecorded /\ WorkspaceScaffolded
              /\ Returned.ok
        /\ app.mode = "UpdateProviderOnly" => scaffolded = None /\ ~autostart
        /\ Returned.error = Str("save failed") =>
              fs = hist.fs0 /\ active_dir = None /\ scaffolded = None /\ ~autostart
        /\ Returned.error = Str("persist failed") =>
              DocumentSaved /\ active_dir = None /\ scaffolded = None /\ ~autostart
        /\ Returned.error = Str("scaffold failed") =>
              /\ app.mode = "FullOnboarding"
              /\ DocumentSaved /\ DirectoryRecorded /\ scaffolded = None /\ ~autostart
        /\ Returned.ok =>
              /\ DocumentSaved /\ DirectoryRecorded
              /\ app.mode = "FullOnboarding" <=> WorkspaceScaffolded

\* C29: a FullOnboarding synthesis saved the document and then failed to
\* record the directory, and nothing was scaffolded or signalled
C29_Witness ==
    /\ pc = "finalized"
    /\ app.mode = "FullOnboarding"
    /\ Returned.error = Str("persist failed")
    /\ DocumentSaved
    /\ fs # hist.fs0
    /\ active_dir = None
    /\ scaffolded = None

\* C29: an UpdateProviderOnly synthesis succeeded without scaffolding
C29_WitnessUpdate ==
    /\ pc = "finalized"
    /\ app.mode = "UpdateProviderOnly"
    /\ Returned.ok
    /\ DocumentSaved /\ DirectoryRecorded
    /\ scaffolded = None

----------------------------------------------------------------------------
(* Text edits change one buffer (SpecSegment) *)

\* the text buffer that belongs to each text-entry step
BufferOfStep(step) ==
    CASE step = "WorkspaceSetup" -> "workspace_input"
      [] step = "CustomProviderUrlEntry" -> "custom_provider_url_input"
      [] step = "ProviderEndpointEntry" -> "provider_endpoint_input"
      [] step = "ApiKeyEntry" -> "api_key_input"
      [] step = "ModelCustomEntry" -> "model_custom_input"
      [] step = "ChannelTokenEntry" -> "channel_token_input"
      [] step = "ChannelAuxEntry" -> "channel_aux_input"
      [] step = "TunnelPrimaryEntry" -> "tunnel_primary_input"
      [] step = "TunnelSecondaryEntry" -> "tunnel_secondary_input"
      [] step = "ComposioApiKeyEntry" -> "composio_key_input"
      [] step = "ProjectUserEntry" -> "project_user_input"
      [] step = "ProjectTimezoneEntry" -> "project_timezone_input"
      [] step = "ProjectAgentEntry" -> "project_agent_input"
      [] step = "ProjectStyleCustomEntry" -> "project_style_custom_input"

\* the keys that edit a line of text
EditKeys == {[code |-> "Char", ch |-> "a"], [code |-> "Char", ch |-> " "], Key("Backspace")}

\* every field of the wizard state but `buffer` is the same in `a` and `b`
SameBut(a, b, buffer) == \A field \in DOMAIN a : field # buffer => b[field] = a[field]

\* C30: a character-edit key handled while a text-entry step is current
\* changes only the text buffer that belongs to that step: no other buffer, no
\* stored answer, no toggle and not the current step
C30_TextEditFrame ==
    (pc = "segment" /\ app.step \in TextSteps) =>
        \A key \in EditKeys :
            SameBut(app, handle_key(ui(app), key, fs, NotFetched), BufferOfStep(app.step))

\* C30, apart from the contacts of IMessage: the same frame condition at every
\* text-entry step but ChannelAuxEntry with IMessage chosen, where the key
\* changes the buffer of ChannelTokenEntry and nothing else
C30_TextEditFrameButIMessage ==
    (pc = "segment" /\ app.step \in TextSteps) =>
        \A key \in EditKeys :
            LET after == handle_key(ui(app), key, fs, NotFetched)
            IN  IF app.step = "ChannelAuxEntry" /\ app.channel_choice = "IMessage"
                THEN /\ SameBut(app, after, "channel_token_input")
                     /\ after.channel_aux_input = app.channel_aux_input
                     /\ key.code = "Char" =>
                           after.channel_token_input # app.channel_token_input
                ELSE /\ SameBut(app, after, BufferOfStep(app.step))
                     /\ key.code = "Char" =>
                           after[BufferOfStep(app.step)]
                               = Append(app[BufferOfStep(app.step)], key.ch)

----------------------------------------------------------------------------
(* The derived lists (SpecAdvance) *)

\* the keys run_app_loop may read in an iteration
LoopKeys ==
    {Key("Enter"), Key("Up"), Key("Down"), Key("Tab"), Key("Backspace"),
     [code |-> "Char", ch |-> "a"]}

\* C31: the derived lists are recomputed only by the transitions that need
\* them: a key changes current_tier_providers only if it is Enter at
\* ProviderTierSelection, and then the list is that of the selected tier; it
\* changes available_models only if it is Enter at ApiKeyEntry; and
\* provider_tiers is in every state the list the session started with
C31_DerivedLists ==
    pc = "advance" =>
        /\ app.provider_tiers = get_provider_tiers
        /\ \A key \in LoopKeys :
             \A fetched \in IF app.step = "ApiKeyEntry" /\ key.code = "Enter"
                            THEN FetchOutcomes ELSE {NotFetched} :
                LET after == handle_key(ui(app), key, fs, fetched)
                IN  /\ after.provider_tiers = app.provider_tiers
                    /\ after.current_tier_providers # app.current_tier_providers =>
                          key.code = "Enter" /\ app.step = "ProviderTierSelection"
                    /\ (key.code = "Enter" /\ app.step = "ProviderTierSelection") =>
                          after.current_tier_providers =
                              get_providers_for_tier(ui(app).provider_tier_list)
                    /\ after.available_models # app.available_models =>
                          key.code = "Enter" /\ app.step = "ApiKeyEntry"

\* C31: both lists have been computed and the session has gone on past the
\* steps that computed them
C31_Witness ==
    /\ pc = "advance"
    /\ app.step = "ChannelSelection"
    /\ app.current_tier_providers # <<>>
    /\ app.available_models # <<>>
    /\ app.provider_tiers = get_provider_tiers

----------------------------------------------------------------------------
(* An update without a document to update (SpecSynthesis) *)

\* the wizard state after a custom workspace was confirmed at WorkspaceSetup
Moved(a) ==
    apply_workspace_input([a EXCEPT !.use_default_workspace = FALSE,
                                    !.workspace_input = <<"~", "a">>])

\* `config` is the all-defaults document but for the provider identity and the
\* two paths of `a`
DefaultsWithIdentity(a, config) ==
    /\ IdentityOf(a, config)
    /\ config.api_key = Optional(a.api_key)
    /\ config.workspace_dir = a.workspace_dir
    /\ config.config_path = a.config_path
    /\ Sections(config) = Sections(Config_default)

\* C32: synthesis in UpdateProviderOnly with no document at the resolved config
\* path, as it is or after a custom workspace moved the path away from an
\* existing document, starts from the all-defaults document and writes only
\* provider, model, api url, api key and the two paths; the channel, tunnel,
\* tool-mode, secrets, hardware and memory answers of the session are not
\* written
C32_UpdateWithoutDocument ==
    /\ (pc = "finalize_config" /\ app.mode = "UpdateProviderOnly") =>
          \A a \in {app, Moved(app)} :
             FileAt(fs, a.config_path).kind = "none" =>
                LET out == finalize_config(a, fs, active_dir, scaffolded, autostart, "none")
                IN  /\ out.ok
                    /\ DefaultsWithIdentity(a, out.config)
                    /\ FileAt(out.fs, a.config_path) = TomlFile(out.config)
    /\ (pc = "finalized" /\ app.mode = "UpdateProviderOnly" /\ Returned.ok
            /\ FileAt(hist.fs0, app.config_path).kind = "none") =>
          /\ DefaultsWithIdentity(app, Returned.config)
          /\ FileAt(fs, app.config_path) = TomlFile(Returned.config)

\* C32: an update with channel, tunnel, tool-mode, secrets, hardware and memory
\* answers in the store has found no document and saved the defaults for them
C32_Witness ==
    /\ pc = "finalized"
    /\ app.mode = "UpdateProviderOnly"
    /\ Returned.ok
    /\ hist.fs0 = <<>>
    /\ app.tunnel_choice = "Ngrok"
    /\ app.tool_mode_choice = "Composio"
    /\ IsSome(app.channels_config.sub["telegram"])
    /\ Sections(Returned.config) = Sections(Config_default)
    /\ FileAt(fs, app.config_path) = TomlFile(Returned.config)

\* C32: the path of an update was moved away from an existing document
C32_WitnessMoved ==
    /\ pc = "finalize_config"
    /\ app.mode = "UpdateProviderOnly"
    /\ FileAt(fs, app.config_path).kind = "toml"
    /\ FileAt(fs, Moved(app).config_path).kind = "none"
    /\ app.tunnel_choice = "Ngrok"

----------------------------------------------------------------------------
(* The two url steps: handle_key from CustomProviderUrlEntry and from         *)
(* ProviderEndpointEntry, to every text of blanks, slashes and letters        *)
(* (SpecUrl)                                                                  *)

\* the wizard at CustomProviderUrlEntry: a fresh session once Welcome,
\* WorkspaceSetup and the custom tier have been confirmed
AtCustomProviderUrlEntry ==
    Confirm([Confirm(Confirm(
        [App_new(FALSE) EXCEPT
            !.config_dir = DefaultConfigDir,
            !.config_path = join(DefaultConfigDir, "config.toml"),
            !.workspace_dir = DefaultWorkspaceDir])) EXCEPT !.provider_tier_list = 1])

\* the wizard at a url step: the custom one, or the endpoint one of each
\* provider that needs an endpoint
UrlStarts ==
    {AtCustomProviderUrlEntry}
    \cup {a \in {Confirm([AtProviderSelection EXCEPT !.provider_list = i]) :
                    i \in 0..(Len(AtProviderSelection.current_tier_providers) - 1)} :
             a.step = "ProviderEndpointEntry"}

UrlSteps == {"CustomProviderUrlEntry", "ProviderEndpointEntry"}

InitUrl ==
    /\ app \in UrlStarts
    /\ fs = <<>>
    /\ pc = "segment"
    /\ raw_mode = TRUE
    /\ alt_screen = TRUE
    /\ active_dir = None
    /\ scaffolded = None
    /\ autostart = FALSE
    /\ loop_result = "running"
    /\ result = None
    /\ hist = [esc |-> FALSE, finalize_calls |-> 0, finalize_step |-> "-",
               finalize_mode |-> "-", raw_acquired |-> TRUE,
               last |-> [code |-> "-", step |-> "-"], toggled |-> None, fs0 |-> fs]
    /\ keys = 0

\* a character is typed into the url
UrlType ==
    /\ app.step \in UrlSteps
    /\ Len(app[InputOf(app)]) < MaxText
    /\ \E c \in {" ", "/", "a"} : SegmentKey([code |-> "Char", ch |-> c], NotFetched)

\* the last character of the url is deleted
UrlBackspace ==
    /\ app.step \in UrlSteps
    /\ app[InputOf(app)] # <<>>
    /\ SegmentKey(Key("Backspace"), NotFetched)

\* the url is confirmed
UrlEnter ==
    /\ app.step \in UrlSteps
    /\ SegmentKey(Key("Enter"), NotFetched)

NextUrl ==
    \/ UrlType
    \/ UrlBackspace
    \/ UrlEnter

SpecUrl == InitUrl /\ [][NextUrl]_vars

\* the text without the blanks around it and then without the slashes at its
\* end
WithoutTrailingSlashes(text) ==
    LET inner == Strip(text)
        solid == {i \in 1..Len(inner) : inner[i] # "/"}
    IN  IF solid = {} THEN <<>>
        ELSE SubSeq(inner, 1, CHOOSE i \in solid : \A j \in solid : i >= j)

\* C33: Enter at CustomProviderUrlEntry over a text that is non-empty once
\* trimmed and rid of its trailing slashes makes provider "custom:" followed
\* by that text, api_url absent and the step ApiKeyEntry; Enter at
\* ProviderEndpointEntry over such a text stores it as api_url, leaves
\* provider as it is and makes the step ApiKeyEntry; nothing else changes
C33_UrlEntry ==
    (pc = "segment" /\ app.step \in UrlSteps) =>
        LET url == WithoutTrailingSlashes(app[InputOf(app)])
            after == EnterFrom(app)
        IN  url # <<>> =>
              IF app.step = "CustomProviderUrlEntry"
              THEN after = [app EXCEPT !.provider = <<"custom:">> \o url,
                                       !.api_url = None,
                                       !.step = "ApiKeyEntry"]
              ELSE after = [app EXCEPT !.api_url = Some(url),
                                       !.step = "ApiKeyEntry"]

\* C33: an endpoint typed with a blank before it and a slash after it has
\* been confirmed and stored without either
C33_Witness ==
    /\ Confirmed("ProviderEndpointEntry")
    /\ app.step = "ApiKeyEntry"
    /\ app.provider_endpoint_input = <<" ", "a", "/">>
    /\ app.api_url = Some(<<"a">>)
    /\ needs_provider_endpoint(app.provider)

\* C33: a custom url typed with slashes after it has been confirmed
C33_WitnessCustom ==
    /\ Confirmed("CustomProviderUrlEntry")
    /\ app.step = "ApiKeyEntry"
    /\ app.custom_provider_url_input = <<"a", "/", "/">>
    /\ app.provider = <<"custom:", "a">>
    /\ app.api_url = None

----------------------------------------------------------------------------
(* No way back in the step graph (SpecAdvance) *)

\* the transitions that apply an answer: model catalog preparation, channel
\* choice, channel token, tunnel choice
ApplyingSteps == {"ApiKeyEntry", "ChannelSelection", "ChannelAuxEntry", "TunnelSelection"}

\* the step `step` has been left, the step now current being declared after it
Left(step) == Rank(app.step) > Rank(step)

\* C34: every transition of next_step keeps the step or moves to a step
\* declared strictly later in WizardStep; a step that has been left is never
\* current again; and a transition that applies an answer leaves its step at
\* once, so that it happens at most once
C34_NoWayBack ==
    /\ [][hist'.last.code = "Enter" =>
             \/ app'.step = app.step
             \/ Rank(app'.step) > Rank(app.step)]_vars
    /\ [][hist'.last.code = "Enter" /\ app.step \in ApplyingSteps =>
             Rank(app'.step) > Rank(app.step)]_vars
    /\ [][Rank(app'.step) >= Rank(app.step)]_vars
    /\ [](Left("ApiKeyEntry") => [](app.step # "ApiKeyEntry"))
    /\ [](Left("ChannelSelection") => [](app.step # "ChannelSelection"))
    /\ [](Left("ChannelAuxEntry") => [](app.step # "ChannelAuxEntry"))
    /\ [](Left("TunnelSelection") => [](app.step # "TunnelSelection"))

\* C34: the four applying transitions have happened, the channel token one
\* over an empty token, and the session has gone on to Done
C34_Witness ==
    /\ pc = "advance"
    /\ app.step = "Done"
    /\ app.channel_choice \notin {"CliOnly", "IMessage"}
    /\ app.channel_token_input = <<>>
    /\ app.available_models # <<>>

----------------------------------------------------------------------------
(* Provider and api_url from ApiKeyEntry on (SpecAdvance) *)

\* the texts of up to MaxText blanks, slashes and letters
UrlTexts == UNION {[1..n -> {" ", "/", "a"}] : n \in 0..MaxText}

\* provider is non-empty, and api_url is present, non-empty and without a
\* trailing slash, exactly when provider is one that needs an endpoint
ProviderAndUrl(a) ==
    /\ a.provider # <<>>
    /\ IF a.provider \in {<<id>> : id \in EndpointProviders}
       THEN /\ IsSome(a.api_url)
            /\ Unwrap(a.api_url) # <<>>
            /\ Unwrap(a.api_url)[Len(Unwrap(a.api_url))] # "/"
       ELSE a.api_url = None
    /\ a.provider[1] = "custom:" => a.api_url = None

\* C35: in every state of a session started at Welcome whose step is
\* ApiKeyEntry or later, provider is non-empty and api_url is present,
\* non-empty and without a trailing slash if and only if provider is llamacpp,
\* sglang, vllm or osaurus; and whatever url is typed at one of the two url
\* steps, the state in which the step is left for ApiKeyEntry is such a state
C35_ProviderAndUrl ==
    pc = "advance" =>
        /\ Rank(app.step) >= Rank("ApiKeyEntry") => ProviderAndUrl(app)
        /\ app.step \in UrlSteps =>
              \A text \in UrlTexts :
                 LET after == next_step([ui(app) EXCEPT ![InputOf(app)] = text],
                                        fs, NotFetched)
                 IN  /\ after.step \in {app.step, "ApiKeyEntry"}
                     /\ after.step = "ApiKeyEntry" => ProviderAndUrl(after)

\* C35: a session with a provider that needs an endpoint is past ApiKeyEntry
\* and holds the endpoint
C35_Witness ==
    /\ pc = "advance"
    /\ Rank(app.step) > Rank("ApiKeyEntry")
    /\ needs_provider_endpoint(app.provider)
    /\ IsSome(app.api_url)

\* C35: a session with a custom provider is past ApiKeyEntry and holds no
\* api_url
C35_WitnessCustom ==
    /\ pc = "advance"
    /\ Rank(app.step) > Rank("ApiKeyEntry")
    /\ app.provider[1] = "custom:"
    /\ app.api_url = None

----------------------------------------------------------------------------
(* What ChannelAuxEntry leaves populated (SpecSegment) *)

\* C36: Enter at ChannelAuxEntry always leads to TunnelSelection, and then the
\* sub-config of the chosen channel is populated if and only if the channel
\* is not Telegram, Discord or Slack or the primary token, the text of the
\* token buffer without the blanks around it, is non-empty; for Telegram,
\* Discord and Slack an empty token leaves no channel sub-config populated
\* although the channel chosen is not the CLI
C36_AuxEntryPopulates ==
    /\ (pc = "segment" /\ app.step = "ChannelAuxEntry") =>
          EnterFrom(app).step = "TunnelSelection"
    /\ Confirmed("ChannelAuxEntry") =>
          /\ app.step = "TunnelSelection"
          /\ app.channel_choice # "CliOnly"
          /\ IsSome(CurrentSub(app)) <=>
                \/ app.channel_choice \notin BotChannels
                \/ Strip(app.channel_token_input) # <<>>
          /\ (app.channel_choice \in BotChannels
                /\ Strip(app.channel_token_input) = <<>>) => Populated(app) = {}

\* C36: Slack was chosen, a token of one blank typed, and TunnelSelection
\* reached with no channel sub-config populated
C36_Witness ==
    /\ Confirmed("ChannelAuxEntry")
    /\ app.step = "TunnelSelection"
    /\ app.channel_choice = "Slack"
    /\ app.channel_token_input = <<" ">>
    /\ Populated(app) = {}

\* C36: Matrix was chosen, no token typed, and its sub-config is populated
C36_WitnessOther ==
    /\ Confirmed("ChannelAuxEntry")
    /\ app.channel_choice = "Matrix"
    /\ app.channel_token_input = <<>>
    /\ Populated(app) = {"matrix"}

----------------------------------------------------------------------------
(* Who is offered the mode choice (SpecAdvance) *)

\* a configuration file was there when the session started, and so when
\* Welcome was confirmed
FileAtStart == FileAt(hist.fs0, join(DefaultConfigDir, "config.toml")).kind # "none"

\* C37: in a session started with --force, or with no configuration file when
\* Welcome was confirmed, ConfigModeSelection is never the current step and
\* mode is FullOnboarding in every state; mode is UpdateProviderOnly only
\* after ConfigModeSelection was confirmed, and no key but Enter at
\* ConfigModeSelection changes mode
C37_ModeChoiceOffered ==
    pc = "advance" =>
        /\ (app.force \/ ~FileAtStart) =>
              /\ app.step # "ConfigModeSelection"
              /\ app.mode = "FullOnboarding"
        /\ app.mode = "UpdateProviderOnly" =>
              /\ ~app.force /\ FileAtStart
              /\ Rank(app.step) > Rank("ConfigModeSelection")
        /\ app.step = "ConfigModeSelection" =>
              /\ ~app.force /\ FileAtStart
              /\ hist.last.step \in {"Welcome", "ConfigModeSelection"}
        /\ \A key \in LoopKeys :
              handle_key(ui(app), key, fs, NotFetched).mode # app.mode =>
                  key.code = "Enter" /\ app.step = "ConfigModeSelection"

\* C37: a session started with --force over an existing configuration file
\* has left Welcome for WorkspaceSetup in FullOnboarding
C37_Witness ==
    /\ pc = "advance"
    /\ app.force
    /\ FileAtStart
    /\ hist.last = [code |-> "Enter", step |-> "Welcome"]
    /\ app.step = "WorkspaceSetup"
    /\ app.mode = "FullOnboarding"

\* C37: UpdateProviderOnly was chosen at ConfigModeSelection
C37_WitnessUpdate ==
    /\ pc = "advance"
    /\ app.mode = "UpdateProviderOnly"
    /\ hist.last = [code |-> "Enter", step |-> "ConfigModeSelection"]

----------------------------------------------------------------------------
(* The three paths (Spec) *)

\* config_dir, workspace_dir and config_path of `a`
Paths(a) == <<a.config_dir, a.workspace_dir, a.config_path>>

\* C38: while the event loop runs config_path is config_dir joined with
\* config.toml; Enter at WorkspaceSetup replaces config_dir, workspace_dir and
\* config_path together, by the directories resolved from the typed path,
\* when the custom-path option is on and the typed path is non-empty once
\* trimmed, and otherwise leaves the three as they are; no other key and no
\* other step changes them
C38_PathConsistency ==
    pc = "loop" =>
        /\ app.config_path = join(app.config_dir, "config.toml")
        /\ \A key \in LoopKeys :
              LET after == handle_key(ui(app), key, fs, NotFetched)
                  typed == Strip(app.workspace_input)
              IN  IF key.code = "Enter" /\ app.step = "WorkspaceSetup"
                      /\ ~app.use_default_workspace /\ typed # <<>>
                  THEN /\ after.config_dir = resolve_config_dir_for_workspace(tilde(typed))[1]
                       /\ after.workspace_dir = resolve_config_dir_for_workspace(tilde(typed))[2]
                       /\ after.config_path = join(after.config_dir, "config.toml")
                       /\ after.step = "ProviderTierSelection"
                  ELSE Paths(after) = Paths(app)

\* C38: a custom path was typed and confirmed at WorkspaceSetup, and the three
\* paths are those resolved from it
C38_Witness ==
    /\ pc = "loop"
    /\ hist.last = [code |-> "Enter", step |-> "WorkspaceSetup"]
    /\ ~app.use_default_workspace
    /\ app.workspace_input = <<"~">>
    /\ app.config_dir = <<"$HOME">>
    /\ app.config_dir # DefaultConfigDir
    /\ app.config_path = join(app.config_dir, "config.toml")

----------------------------------------------------------------------------
(* The model list on arrival at ModelSelection (SpecSegment) *)

\* Enter at ApiKeyEntry has led to ModelSelection with loading off, the cursor
\* on the first entry and a list of at least two entries ending in the
\* sentinel, from which a confirm leads on
ArrivedAtModelSelection ==
    /\ app.step = "ModelSelection"
    /\ ~app.loading
    /\ app.model_list = 0
    /\ Len(app.available_models) >= 2
    /\ app.available_models[Len(app.available_models)] = CUSTOM_MODEL_SENTINEL
    /\ \A i \in 1..Len(app.available_models) : app.available_models[i] # <<>>
    /\ EnterFrom(app).step \in {"ModelCustomEntry", "ChannelSelection"}

\* an entry before the last one is a model id other than the sentinel
HasRealModelId ==
    \E i \in 1..(Len(app.available_models) - 1) :
        app.available_models[i] # CUSTOM_MODEL_SENTINEL

\* C39: confirming ApiKeyEntry always leads to ModelSelection, with an empty
\* key and whatever the catalog lookup returns, and then loading is false, the
\* model selection index is 0 and available_models has at least two entries:
\* at least one real model id followed by the sentinel
C39_ModelListHasRealId ==
    Confirmed("ApiKeyEntry") => ArrivedAtModelSelection /\ HasRealModelId

\* C39, but for a catalog that lists the sentinel: the same, the entries
\* before the final sentinel including a real model id unless the list is the
\* sentinel twice, which happens only for a provider without curated models;
\* in either case ModelSelection is left by a confirm
C39_ModelListEndsInSentinel ==
    Confirmed("ApiKeyEntry") =>
        /\ ArrivedAtModelSelection
        /\ \/ HasRealModelId
           \/ /\ app.available_models = <<CUSTOM_MODEL_SENTINEL, CUSTOM_MODEL_SENTINEL>>
              /\ curated_models_for_provider(app.provider) = <<>>
              /\ EnterFrom(app).step = "ModelCustomEntry"

\* C39: an empty key was confirmed, the lookup failed, and the list is the
\* provider default followed by the sentinel
C39_Witness ==
    /\ Confirmed("ApiKeyEntry")
    /\ app.api_key = <<>>
    /\ app.step = "ModelSelection"
    /\ app.available_models =
           <<default_model_for_provider(app.provider), CUSTOM_MODEL_SENTINEL>>
    /\ app.status_message[1] = "Live fetch unavailable: "

====
